---- MODULE Spec2Model ----
(***************************************************************************)
(* Screening query compiler, cell normalizer, transport/retry layer and    *)
(* bulk orchestrator of the Finviz client (src/src/finviz_client/base.py). *)
(*                                                                         *)
(* Strings are TLC strings (sequences of characters): Len, SubSeq and \o   *)
(* act on them as on Python str.  A FilterSpec value is a tagged record    *)
(*   [t, n, s, l]   t = "none" | "bool" | "int" | "float" | "str" | "list" *)
(* where a number is held in hundredths in n (10.5 is n = 1050), a bool as *)
(* the number 1.0 / 0.0, a string in s and a list of strings in l.             *)
(***************************************************************************)
EXTENDS Integers, Sequences, FiniteSets, TLC

VARIABLES
    filters,    \* the caller's FilterSpec: key -> value
    params,     \* the compiled QueryParameters, or NoParams before compiling
    cpc,        \* position of the compile call: "start" | "done"
    cell,       \* raw cell text handed to _clean_numeric_value
    cleaned,    \* its result
    npc,        \* position of the normalizer call: "start" | "done"
    volume,     \* value handed to _convert_volume_to_finviz_format
    bucket,     \* its result
    vpc,        \* position of the ladder call: "start" | "done"
    api_key,    \* self.api_key ("" when unset)
    env_api_key,\* os.getenv('FINVIZ_API_KEY') at fetch time ("" when unset)
    retries,    \* _make_request's retries argument
    attempt,    \* loop variable of _make_request
    rpc,        \* position inside _make_request / the fetch around it
    events,     \* what the transport did so far: sleeps and HTTP attempts
    path,       \* the entry point: "csv_data" | "screen_stocks" | "csv_from_url" | "make_request"
    body,       \* response.text of the successful attempt
    outcome,    \* what the call returned: "pending" | "empty" | "table"; for
                \* screen_stocks "empty_list" | "row_list"
    tickers,    \* tickers argument of get_multiple_stocks_fundamentals
    data_fields,\* data_fields argument
    bpc,        \* position inside get_multiple_stocks_fundamentals
    df,         \* the bulk response as a frame [columns, rows]
    idx,        \* how many tickers the per-ticker fallback has handled
    results,    \* the results list being built
    requests    \* the fetches issued so far, in order

vars == <<filters, params, cpc, cell, cleaned, npc, volume, bucket, vpc,
          api_key, env_api_key, retries, attempt, rpc, events, path, body, outcome,
          tickers, data_fields, bpc, df, idx, results, requests>>

compileVars == <<filters, params, cpc>>
cleanVars   == <<cell, cleaned, npc>>
ladderVars  == <<volume, bucket, vpc>>
fetchVars   == <<api_key, env_api_key, retries, attempt, rpc, events, path, body, outcome>>
bulkVars    == <<tickers, data_fields, bpc, df, idx, results, requests>>

-----------------------------------------------------------------------------
(* Python str helpers                                                      *)

StartsWith(s, p) == Len(s) >= Len(p) /\ SubSeq(s, 1, Len(p)) = p

EndsWith(s, p) == Len(s) >= Len(p) /\ SubSeq(s, Len(s) - Len(p) + 1, Len(s)) = p

Contains(s, p) ==
    \E i \in 1..(Len(s) - Len(p) + 1) : SubSeq(s, i, i + Len(p) - 1) = p

StartsWithAny(s, ps) == \E p \in ps : StartsWith(s, p)

RECURSIVE RStrip(_, _)
RStrip(s, c) ==
    IF Len(s) > 0 /\ SubSeq(s, Len(s), Len(s)) = c
    THEN RStrip(SubSeq(s, 1, Len(s) - 1), c)
    ELSE s

RECURSIVE RemoveChar(_, _)
RemoveChar(s, c) ==
    IF Len(s) = 0 THEN ""
    ELSE IF SubSeq(s, 1, 1) = c THEN RemoveChar(Tail(s), c)
         ELSE SubSeq(s, 1, 1) \o RemoveChar(Tail(s), c)

RECURSIVE Join(_, _)
Join(parts, sep) ==
    IF Len(parts) = 0 THEN ""
    ELSE IF Len(parts) = 1 THEN parts[1]
         ELSE parts[1] \o sep \o Join(Tail(parts), sep)

(* s.split(c): always at least one segment, empty segments kept *)
SepsOf(s, c) == {i \in 1..Len(s) : SubSeq(s, i, i) = c}

NthSep(seps, k) == CHOOSE i \in seps : Cardinality({j \in seps : j < i}) = k - 1

SegmentAt(s, seps, k) ==
    SubSeq(s, IF k = 1 THEN 1 ELSE NthSep(seps, k - 1) + 1,
              IF k = Cardinality(seps) + 1 THEN Len(s) ELSE NthSep(seps, k) - 1)

SplitAt(s, seps) == [k \in 1..(Cardinality(seps) + 1) |-> SegmentAt(s, seps, k)]

Split(s, c) == SplitAt(s, SepsOf(s, c))

Digits == {"0", "1", "2", "3", "4", "5", "6", "7", "8", "9"}

DigitVal(c) ==
    CASE c = "0" -> 0 [] c = "1" -> 1 [] c = "2" -> 2 [] c = "3" -> 3
      [] c = "4" -> 4 [] c = "5" -> 5 [] c = "6" -> 6 [] c = "7" -> 7
      [] c = "8" -> 8 [] c = "9" -> 9

(* str.isdigit(): non-empty and every character a digit *)
IsDigitStr(s) == Len(s) > 0 /\ \A i \in 1..Len(s) : SubSeq(s, i, i) \in Digits

AllDigits(s) == \A i \in 1..Len(s) : SubSeq(s, i, i) \in Digits

RECURSIVE DigitsVal(_, _)
DigitsVal(s, acc) ==
    IF Len(s) = 0 THEN acc ELSE DigitsVal(Tail(s), 10 * acc + DigitVal(SubSeq(s, 1, 1)))

Whitespace == {" ", "\t", "\n", "\r"}

RECURSIVE Strip(_)
Strip(s) ==
    IF Len(s) > 0 /\ SubSeq(s, 1, 1) \in Whitespace THEN Strip(Tail(s))
    ELSE IF Len(s) > 0 /\ SubSeq(s, Len(s), Len(s)) \in Whitespace
         THEN Strip(SubSeq(s, 1, Len(s) - 1))
         ELSE s

-----------------------------------------------------------------------------
(* Python numbers: values are held in hundredths                           *)

Scale == 10 * 10

(* int(x): truncation toward zero *)
Trunc(h) == IF h >= 0 THEN h \div Scale ELSE -((-h) \div Scale)

IntStr(i) == IF i >= 0 THEN ToString(i) ELSE "-" \o ToString(-i)

(* the fractional digits of |h|, without synthesized trailing zeros *)
FracStr(h) ==
    LET a == IF h >= 0 THEN h ELSE -h
        r == a % Scale
    IN  IF r % 10 = 0 THEN ToString(r \div 10)
        ELSE IF r < 10 THEN "0" \o ToString(r) ELSE ToString(r)

(* str(x) of a float: shortest repr, always with a decimal point *)
FloatStr(h) ==
    LET a == IF h >= 0 THEN h ELSE -h
    IN  (IF h < 0 THEN "-" ELSE "") \o ToString(a \div Scale) \o "." \o FracStr(h)

(* float(s) of a plain decimal literal: sign, digits, optional fraction of at
   most two digits.  ok = FALSE models ValueError. *)
Parsed(h) == [ok |-> TRUE, h |-> h]
NotParsed == [ok |-> FALSE, h |-> 0]

Unsigned(s) == IF StartsWith(s, "-") \/ StartsWith(s, "+") THEN Tail(s) ELSE s

Signed(s, mag) == IF StartsWith(s, "-") THEN -mag ELSE mag

(* position of the first '.', or one past the end *)
DotAt(u) ==
    IF \E i \in 1..Len(u) : SubSeq(u, i, i) = "."
    THEN CHOOSE i \in 1..Len(u) :
            SubSeq(u, i, i) = "." /\ \A j \in 1..(i - 1) : SubSeq(u, j, j) # "."
    ELSE Len(u) + 1

FracVal(fp) ==
    IF Len(fp) = 0 THEN 0
    ELSE IF Len(fp) = 1 THEN 10 * DigitsVal(fp, 0) ELSE DigitsVal(fp, 0)

ParseParts(s, ip, fp) ==
    IF AllDigits(ip) /\ AllDigits(fp) /\ Len(ip) + Len(fp) > 0 /\ Len(fp) <= 2
    THEN Parsed(Signed(s, Scale * DigitsVal(ip, 0) + FracVal(fp)))
    ELSE NotParsed

ParseAt(s, u, dot) == ParseParts(s, SubSeq(u, 1, dot - 1), SubSeq(u, dot + 1, Len(u)))

ParseStripped(s, u) == ParseAt(s, u, DotAt(u))

ParseSigned(s) == ParseStripped(s, Unsigned(s))

ParseFloat(s0) == ParseSigned(Strip(s0))

IntOf(s, u) == IF IsDigitStr(u) THEN Parsed(Signed(s, Scale * DigitsVal(u, 0))) ELSE NotParsed

IntSigned(s) == IntOf(s, Unsigned(s))

(* int(s) of a string: sign and digits only *)
ParseInt(s0) == IntSigned(Strip(s0))

-----------------------------------------------------------------------------
(* FilterSpec values                                                       *)

None     == [t |-> "none",  n |-> 0, s |-> "", l |-> <<>>]
BoolV(b) == [t |-> "bool",  n |-> IF b THEN Scale ELSE 0, s |-> "", l |-> <<>>]
IntV(i)  == [t |-> "int",   n |-> Scale * i, s |-> "", l |-> <<>>]
FloatV(h) == [t |-> "float", n |-> h, s |-> "", l |-> <<>>]
StrV(s)  == [t |-> "str",   n |-> 0, s |-> s, l |-> <<>>]
ListV(l) == [t |-> "list",  n |-> 0, s |-> "", l |-> l]

IsNum(v) == v.t \in {"bool", "int", "float"}
IsStr(v) == v.t = "str"

(* Python truthiness *)
Truthy(v) ==
    CASE v.t = "none" -> FALSE
      [] IsNum(v)     -> v.n # 0
      [] v.t = "str"  -> v.s # ""
      [] v.t = "list" -> v.l # <<>>

(* Python ==: numbers (bool included) compare by value *)
PyEq(a, b) ==
    IF IsNum(a) /\ IsNum(b) THEN a.n = b.n
    ELSE a.t = b.t /\ a.s = b.s /\ a.l = b.l

(* str(x) *)
PyStr(v) ==
    CASE v.t = "none"  -> "None"
      [] v.t = "bool"  -> IF v.n # 0 THEN "True" ELSE "False"
      [] v.t = "int"   -> IntStr(Trunc(v.n))
      [] v.t = "float" -> FloatStr(v.n)
      [] v.t = "str"   -> v.s
      [] v.t = "list"  -> "[" \o Join([i \in 1..Len(v.l) |-> "'" \o v.l[i] \o "'"], ", ") \o "]"

Has(f, k) == k \in DOMAIN f
Get(f, k) == IF k \in DOMAIN f THEN f[k] ELSE None
NotNone(v) == v.t # "none"

-----------------------------------------------------------------------------
(* Value encoders                                                          *)

(* str(int(x)) if x == int(x) else str(x) *)
PriceStr(h) == IF h % Scale = 0 THEN IntStr(Trunc(h)) ELSE FloatStr(h)

(* float(value) worked: the rendered number; ValueError: the string itself *)
PriceOfParsed(s, p) == IF p.ok THEN PriceStr(p.h) ELSE s

(* _safe_price_conversion *)
_safe_price_conversion(value) ==
    CASE value.t = "str" ->
           IF StartsWithAny(value.s, {"o", "u"})
              /\ IsDigitStr(RemoveChar(Tail(value.s), "."))
           THEN value.s
           ELSE PriceOfParsed(value.s, ParseFloat(value.s))
      [] IsNum(value) -> PriceStr(value.n)
      [] OTHER -> PyStr(value)

(* VolumeLadder with strict comparisons *)
VolumeLadder_Strict(volume_k) ==
    IF volume_k > 2000 THEN "o2000"
    ELSE IF volume_k > 1000 THEN "o1000"
    ELSE IF volume_k > 750 THEN "o750"
    ELSE IF volume_k > 500 THEN "o500"
    ELSE IF volume_k > 400 THEN "o400"
    ELSE IF volume_k > 300 THEN "o300"
    ELSE IF volume_k > 200 THEN "o200"
    ELSE IF volume_k > 100 THEN "o100"
    ELSE IF volume_k > 50 THEN "o50"
    ELSE "o0"

(* the descending ladder of _convert_volume_to_finviz_format, on int(v / 1000) *)
VolumeLadder(volume_k) ==
    IF volume_k >= 2000 THEN "o2000"
    ELSE IF volume_k >= 1000 THEN "o1000"
    ELSE IF volume_k >= 750 THEN "o750"
    ELSE IF volume_k >= 500 THEN "o500"
    ELSE IF volume_k >= 400 THEN "o400"
    ELSE IF volume_k >= 300 THEN "o300"
    ELSE IF volume_k >= 200 THEN "o200"
    ELSE IF volume_k >= 100 THEN "o100"
    ELSE IF volume_k >= 50 THEN "o50"
    ELSE "o0"

(* int(volume_value / 1000) for a number held in hundredths *)
VolumeK(h) == IF h >= 0 THEN h \div (Scale * 1000) ELSE -((-h) \div (Scale * 1000))

(* float(volume_value) worked: the ladder; ValueError: the default *)
VolumeOfParsed(p) == IF p.ok THEN VolumeLadder(VolumeK(p.h)) ELSE "o100"

(* _convert_volume_to_finviz_format *)
_convert_volume_to_finviz_format(volume_value) ==
    CASE volume_value.t = "str" ->
           IF StartsWithAny(volume_value.s, {"o", "u", "e"})
              \/ volume_value.s \in {"", "frange"}
           THEN volume_value.s
           ELSE IF EndsWith(volume_value.s, "to") \/ Contains(volume_value.s, "to")
           THEN volume_value.s
           ELSE VolumeOfParsed(ParseFloat(volume_value.s))
      [] IsNum(volume_value) -> VolumeLadder(VolumeK(volume_value.n))
      [] OTHER -> "o100"

(* str(int(float(value))), or the string itself on ValueError *)
NumericOfParsed(s, p) == IF p.ok THEN IntStr(Trunc(p.h)) ELSE s

(* _safe_numeric_conversion *)
_safe_numeric_conversion(value) ==
    CASE value.t = "str" ->
           IF StartsWithAny(value.s, {"o", "u", "e"})
           THEN Tail(value.s)
           ELSE NumericOfParsed(value.s, ParseFloat(value.s))
      [] IsNum(value) -> IntStr(Trunc(value.n))
      [] OTHER -> PyStr(value)

-----------------------------------------------------------------------------
(* _convert_filters_to_finviz                                              *)

(* an optional token: <<tok>> when cond, else no token *)
Opt(cond, tok) == IF cond THEN <<tok>> ELSE <<>>

(* params['f'] = params.get('f', '') + piece, done only when cond *)
App(cond, piece) == IF cond THEN piece ELSE ""

Upper == "ABCDEFGHIJKLMNOPQRSTUVWXYZ"
Lower == "abcdefghijklmnopqrstuvwxyz"

LowerOf == [c \in {SubSeq(Upper, i, i) : i \in 1..Len(Upper)} |->
               SubSeq(Lower, CHOOSE i \in 1..Len(Upper) : SubSeq(Upper, i, i) = c,
                             CHOOSE i \in 1..Len(Upper) : SubSeq(Upper, i, i) = c)]

LowerChar(c) == IF c \in DOMAIN LowerOf THEN LowerOf[c] ELSE c

(* str.lower() *)
RECURSIVE ToLower(_)
ToLower(s) == IF Len(s) = 0 THEN "" ELSE LowerChar(SubSeq(s, 1, 1)) \o ToLower(Tail(s))

(* the 'c' parameter: the literal list of column indices 0..128 *)
AllColumns ==
    "0,1,2,3,4,5,6,7,8,9,10,11,12,13,14,15,16,17,18,19,20,21,22,"
    \o "23,24,25,26,27,28,29,30,31,32,33,34,35,36,37,38,39,40,41,42,"
    \o "43,44,45,46,47,48,49,50,51,52,53,54,55,56,57,58,59,60,61,62,"
    \o "63,64,65,66,67,68,69,70,71,72,73,74,75,76,77,78,79,80,81,82,"
    \o "83,84,85,86,87,88,89,90,91,92,93,94,95,96,97,98,99,100,101,"
    \o "102,103,104,105,106,107,108,109,110,111,112,113,114,115,116,"
    \o "117,118,119,120,121,122,123,124,125,126,127,128"

(* sort_mapping *)
sort_mapping ==
    [eps_growth_yoy |-> "epsyoy1", eps_growth_this_y |-> "epsthisy",
     price_change |-> "change", relative_volume |-> "relvol", volume |-> "volume",
     performance_1w |-> "perf1w", market_cap |-> "marketcap", ticker |-> "ticker",
     eps_surprise |-> "epssurprise"]

(* the sort handling with ascending as the order when sort_order is absent *)
SortParam_DefaultAsc(f) ==
    IF Has(f, "sort_by") /\ IsStr(f["sort_by"]) /\ f["sort_by"].s \in DOMAIN sort_mapping
    THEN IF PyEq(Get(f, "sort_order"), StrV("desc"))
         THEN "-" \o sort_mapping[f["sort_by"].s]
         ELSE sort_mapping[f["sort_by"].s]
    ELSE "-ticker"

(* the sort handling at the top of the function: the value of params['o'] *)
SortParam(f) ==
    IF Has(f, "sort_by") /\ IsStr(f["sort_by"]) /\ f["sort_by"].s \in DOMAIN sort_mapping
    THEN IF PyEq(IF Has(f, "sort_order") THEN f["sort_order"] ELSE StrV("desc"), StrV("desc"))
         THEN "-" \o sort_mapping[f["sort_by"].s]
         ELSE sort_mapping[f["sort_by"].s]
    ELSE "-ticker"

(* cap_mapping (the same table in three branches): preset name -> itself *)
cap_mapping ==
    {"mega", "large", "mid", "small", "micro", "nano", "smallover", "midover", "microover"}

InCapMapping(v) == IsStr(v) /\ v.s \in cap_mapping

(* the predicates of the profile selector, in priority order *)
IsVolumeSurge(f) ==
    /\ Has(f, "market_cap") /\ PyEq(f["market_cap"], StrV("smallover"))
    /\ Has(f, "relative_volume_min")
    /\ PyEq(Get(f, "stocks_only"), BoolV(TRUE))
    /\ PyEq(Get(f, "price_change_min"), FloatV(2 * Scale))

IsEarningsAfterhours(f) ==
    /\ Has(f, "earnings_date")
    /\ (PyEq(f["earnings_date"], StrV("today_after")) \/ PyEq(f["earnings_date"], StrV("thisweek")))
    /\ (Has(f, "afterhours_change_min") \/ Has(f, "price_change_min"))

IsEarningsTrading(f) == PyEq(Get(f, "screener_type"), StrV("earnings_trading"))

IsUptrend(f) ==
    /\ Has(f, "market_cap") /\ PyEq(f["market_cap"], StrV("microover"))
    /\ Has(f, "near_52w_high")

(* the selector with the earnings_afterhours test moved to the front *)
Profile_AfterhoursFirst(f) ==
    IF IsEarningsAfterhours(f) THEN "earnings_afterhours"
    ELSE IF IsVolumeSurge(f) THEN "volume_surge"
    ELSE IF IsEarningsTrading(f) THEN "earnings_trading"
    ELSE IF IsUptrend(f) THEN "uptrend"
    ELSE "generic"

Profile(f) ==
    IF IsVolumeSurge(f) THEN "volume_surge"
    ELSE IF IsEarningsAfterhours(f) THEN "earnings_afterhours"
    ELSE IF IsEarningsTrading(f) THEN "earnings_trading"
    ELSE IF IsUptrend(f) THEN "uptrend"
    ELSE "generic"

(* filter_parts of the volume_surge branch *)
VolumeSurgeParts ==
    <<"cap_smallover", "ind_stocksonly", "sh_avgvol_o100", "sh_price_o10",
      "sh_relvol_o1.5", "ta_change_u2", "ta_sma200_pa">>

(* filter_parts of the earnings_afterhours branch *)
EarningsAfterhoursParts(f) ==
    (IF Has(f, "afterhours_change_min") /\ NotNone(f["afterhours_change_min"])
     THEN <<"ah_change_u" \o _safe_numeric_conversion(f["afterhours_change_min"])>>
     ELSE Opt(Has(f, "price_change_min") /\ NotNone(f["price_change_min"]),
              "ta_change_u" \o _safe_numeric_conversion(Get(f, "price_change_min"))))
    \o Opt(Has(f, "market_cap") /\ Truthy(f["market_cap"]) /\ InCapMapping(f["market_cap"]),
           "cap_" \o Get(f, "market_cap").s)
    \o (IF PyEq(Get(f, "earnings_date"), StrV("today_after")) THEN <<"earningsdate_todayafter">>
        ELSE Opt(PyEq(Get(f, "earnings_date"), StrV("thisweek")), "earningsdate_thisweek"))
    \o Opt(Has(f, "avg_volume_min") /\ NotNone(f["avg_volume_min"]),
           "sh_avgvol_" \o _convert_volume_to_finviz_format(Get(f, "avg_volume_min")))
    \o Opt(Has(f, "price_min") /\ NotNone(f["price_min"]),
           "sh_price_o" \o _safe_price_conversion(Get(f, "price_min")))

(* filter_parts of the earnings_trading branch *)
EarningsTradingParts(f) ==
    Opt(Has(f, "market_cap") /\ PyEq(f["market_cap"], StrV("smallover")), "cap_smallover")
    \o Opt(Truthy(Get(f, "earnings_recent")), "earningsdate_yesterdayafter|todaybefore")
    \o Opt(Truthy(Get(f, "earnings_revision_positive")), "fa_epsrev_ep")
    \o Opt(Has(f, "avg_volume_min") /\ PyEq(f["avg_volume_min"], IntV(200000)), "sh_avgvol_o200")
    \o Opt(Has(f, "price_min") /\ PyEq(f["price_min"], FloatV(10 * Scale)), "sh_price_o10")
    \o Opt(Truthy(Get(f, "price_change_positive")), "ta_change_u")
    \o Opt(Has(f, "performance_4w_range")
           /\ PyEq(f["performance_4w_range"], StrV("0_to_negative_4w")), "ta_perf_0to-4w")
    \o Opt(Has(f, "volatility_min") /\ PyEq(f["volatility_min"], FloatV(Scale)),
           "ta_volatility_1tox")

(* a preset passes through, a number is written as the open range <n>to *)
UptrendBound(prefix, converted) ==
    IF StartsWithAny(converted, {"o", "u"}) THEN prefix \o converted
    ELSE prefix \o converted \o "to"

(* filter_parts of the uptrend branch *)
UptrendParts(f) ==
    Opt(Has(f, "market_cap") /\ Truthy(f["market_cap"]) /\ InCapMapping(f["market_cap"]),
        "cap_" \o Get(f, "market_cap").s)
    \o (IF Has(f, "avg_volume_min") /\ NotNone(f["avg_volume_min"])
        THEN <<UptrendBound("sh_avgvol_", _safe_numeric_conversion(f["avg_volume_min"]))>>
        ELSE <<>>)
    \o (IF Has(f, "price_min") /\ NotNone(f["price_min"])
        THEN <<UptrendBound("sh_price_", _safe_price_conversion(f["price_min"]))>>
        ELSE <<>>)
    \o Opt(Has(f, "near_52w_high") /\ NotNone(f["near_52w_high"]),
           "ta_highlow52w_a" \o _safe_numeric_conversion(Get(f, "near_52w_high")) \o "h")
    \o Opt(Truthy(Get(f, "performance_4w_positive")), "ta_perf2_4wup")
    \o Opt(Truthy(Get(f, "sma20_above")), "ta_sma20_pa")
    \o Opt(Truthy(Get(f, "sma200_above")), "ta_sma200_pa")
    \o Opt(Truthy(Get(f, "sma50_above_sma200")), "ta_sma50_sa200")

(* a converted bound: Python None, or the string the converter returned *)
NoVal == [some |-> FALSE, s |-> ""]
Val(s) == [some |-> TRUE, s |-> s]
ValTruthy(v) == v.some /\ v.s # ""

PriceVal(v)   == IF NotNone(v) THEN Val(_safe_price_conversion(v)) ELSE NoVal
NumericVal(v) == IF NotNone(v) THEN Val(_safe_numeric_conversion(v)) ELSE NoVal
VolumeVal(v)  == IF NotNone(v) THEN Val(_convert_volume_to_finviz_format(v)) ELSE NoVal

(* RangePiece with a lone bound always written <min>to / to<max> *)
RangePiece_LoneBoundAsTo(prefix, min_val, max_val, style) ==
    IF ValTruthy(min_val) /\ StartsWithAny(min_val.s, {"o", "u"})
         THEN prefix \o min_val.s \o ","
    ELSE IF ValTruthy(max_val) /\ StartsWithAny(max_val.s, {"o", "u"})
         THEN prefix \o max_val.s \o ","
    ELSE IF ValTruthy(min_val) /\ ValTruthy(max_val)
         THEN prefix \o min_val.s \o "to" \o max_val.s \o ","
    ELSE IF ValTruthy(min_val) THEN prefix \o min_val.s \o "to,"
    ELSE IF ValTruthy(max_val) THEN prefix \o "to" \o max_val.s \o ","
    ELSE ""

(* the five-way if/elif chain shared by the min/max dimensions; the price
   dimension writes a lone bound as o<min> / u<max> (style "ou"), the others
   as <min>to / to<max> (style "to") *)
RangePiece(prefix, min_val, max_val, style) ==
    IF ~(min_val.some \/ max_val.some) THEN ""
    ELSE IF ValTruthy(min_val) /\ StartsWithAny(min_val.s, {"o", "u"})
         THEN prefix \o min_val.s \o ","
    ELSE IF ValTruthy(max_val) /\ StartsWithAny(max_val.s, {"o", "u"})
         THEN prefix \o max_val.s \o ","
    ELSE IF ValTruthy(min_val) /\ ValTruthy(max_val)
         THEN prefix \o min_val.s \o "to" \o max_val.s \o ","
    ELSE IF ValTruthy(min_val)
         THEN (IF style = "ou" THEN prefix \o "o" \o min_val.s \o ","
                               ELSE prefix \o min_val.s \o "to,")
    ELSE IF ValTruthy(max_val)
         THEN (IF style = "ou" THEN prefix \o "u" \o max_val.s \o ","
                               ELSE prefix \o "to" \o max_val.s \o ",")
    ELSE ""

(* market cap preset, generic branch *)
MarketCapPiece(f) ==
    IF Has(f, "market_cap") /\ Truthy(f["market_cap"])
    THEN (IF InCapMapping(f["market_cap"])
          THEN "cap_" \o f["market_cap"].s \o ","
          ELSE "cap_" \o PyStr(f["market_cap"]) \o ",")
    ELSE ""

(* market cap min/max, generic branch *)
MarketCapRange(market_cap_min, market_cap_max) ==
    IF ~(NotNone(market_cap_min) \/ NotNone(market_cap_max)) THEN ""
    ELSE IF Truthy(market_cap_min) /\ Truthy(market_cap_max)
         THEN "cap_" \o PyStr(market_cap_min) \o "to" \o PyStr(market_cap_max) \o ","
    ELSE IF Truthy(market_cap_min)
         THEN "cap_" \o PyStr(market_cap_min) \o "to,"
    ELSE ""

MarketCapRangePiece(f) == MarketCapRange(Get(f, "market_cap_min"), Get(f, "market_cap_max"))

PricePiece(f) ==
    RangePiece("sh_price_", PriceVal(Get(f, "price_min")), PriceVal(Get(f, "price_max")), "ou")

VolumePiece(f) ==
    RangePiece("sh_volume_", NumericVal(Get(f, "volume_min")),
               NumericVal(Get(f, "volume_max")), "to")

AvgVolumePiece(f) ==
    RangePiece("sh_avgvol_", VolumeVal(Get(f, "avg_volume_min")),
               VolumeVal(Get(f, "avg_volume_max")), "to")

RelVolumePiece(f) ==
    RangePiece("sh_relvol_", NumericVal(Get(f, "relative_volume_min")),
               NumericVal(Get(f, "relative_volume_max")), "to")

PriceChangePiece(f) ==
    RangePiece("ta_change_", NumericVal(Get(f, "price_change_min")),
               NumericVal(Get(f, "price_change_max")), "to")

RsiPiece(f) ==
    RangePiece("ta_rsi_", NumericVal(Get(f, "rsi_min")), NumericVal(Get(f, "rsi_max")), "to")

PePiece(f) ==
    RangePiece("fa_pe_", NumericVal(Get(f, "pe_min")), NumericVal(Get(f, "pe_max")), "to")

DividendYieldPiece(f) ==
    RangePiece("fa_div_", NumericVal(Get(f, "dividend_yield_min")),
               NumericVal(Get(f, "dividend_yield_max")), "to")

(* what the else branch ("legacy handling") appends to params['f'] *)
GenericPieces(f) ==
    MarketCapPiece(f) \o MarketCapRangePiece(f) \o PricePiece(f) \o VolumePiece(f)
    \o AvgVolumePiece(f) \o RelVolumePiece(f) \o PriceChangePiece(f)
    \o App(Has(f, "near_52w_high") /\ NotNone(f["near_52w_high"]),
           "ta_highlow52w_a" \o _safe_numeric_conversion(Get(f, "near_52w_high")) \o "h,")
    \o App(Truthy(Get(f, "performance_4w_positive")), "ta_perf2_4wup,")

(* the moving-average filters skipped for the uptrend signature only *)
MovingAveragePieces_SurgeNotSkipped(f) ==
    IF IsUptrend(f) THEN ""
    ELSE App(Truthy(Get(f, "sma20_above")), "ta_sma20_pa,")
         \o App(Truthy(Get(f, "sma50_above")), "ta_sma50_pa,")
         \o App(Truthy(Get(f, "sma200_above")), "ta_sma200_pa,")
         \o App(Truthy(Get(f, "sma50_above_sma200")), "ta_sma50_sa200,")

(* moving-average filters, skipped for the uptrend and volume_surge signatures *)
MovingAveragePieces(f) ==
    IF IsUptrend(f) \/ IsVolumeSurge(f) THEN ""
    ELSE App(Truthy(Get(f, "sma20_above")), "ta_sma20_pa,")
         \o App(Truthy(Get(f, "sma50_above")), "ta_sma50_pa,")
         \o App(Truthy(Get(f, "sma200_above")), "ta_sma200_pa,")
         \o App(Truthy(Get(f, "sma50_above_sma200")), "ta_sma50_sa200,")

(* _get_sector_code: sector_mapping.get(sector), "" standing for None *)
_get_sector_code(sector) ==
    CASE sector = "Basic Materials" -> "basicmaterials"
      [] sector = "Communication Services" -> "communicationservices"
      [] sector = "Consumer Cyclical" -> "consumercyclical"
      [] sector = "Consumer Defensive" -> "consumerdefensive"
      [] sector = "Energy" -> "energy"
      [] sector = "Financial Services" -> "financial"
      [] sector = "Healthcare" -> "healthcare"
      [] sector = "Industrials" -> "industrials"
      [] sector = "Real Estate" -> "realestate"
      [] sector = "Technology" -> "technology"
      [] sector = "Utilities" -> "utilities"
      [] OTHER -> ""

(* sector_codes: the codes of the recognised sectors, in list order *)
RECURSIVE SectorCodes(_)
SectorCodes(l) ==
    IF Len(l) = 0 THEN <<>>
    ELSE (IF _get_sector_code(l[1]) # "" THEN <<_get_sector_code(l[1])>> ELSE <<>>)
         \o SectorCodes(Tail(l))

SectorFilter(sector_codes) ==
    IF sector_codes # <<>> THEN "sec_" \o Join(sector_codes, "|") \o "," ELSE ""

SectorPiece(f) ==
    IF Has(f, "sectors") /\ Truthy(f["sectors"]) /\ f["sectors"].t = "list"
    THEN SectorFilter(SectorCodes(f["sectors"].l))
    ELSE ""

(* earnings_values: internal keyword -> provider form *)
earnings_values ==
    [today |-> "today", today_before |-> "todaybefore", today_after |-> "todayafter",
     tomorrow |-> "tomorrow", tomorrow_before |-> "tomorrowbefore",
     tomorrow_after |-> "tomorrowafter", yesterday |-> "yesterday",
     yesterday_before |-> "yesterdaybefore", yesterday_after |-> "yesterdayafter",
     next_5_days |-> "nextdays5", this_week |-> "thisweek", next_week |-> "nextweek",
     prev_week |-> "prevweek", this_month |-> "thismonth", nextweek |-> "nextweek",
     within_2_weeks |-> "nextdays5", todaybefore |-> "todaybefore",
     todayafter |-> "todayafter", tomorrowbefore |-> "tomorrowbefore",
     tomorrowafter |-> "tomorrowafter", yesterdaybefore |-> "yesterdaybefore",
     yesterdayafter |-> "yesterdayafter", nextdays5 |-> "nextdays5",
     thisweek |-> "thisweek", prevweek |-> "prevweek", thismonth |-> "thismonth"]

(* valid_values = [earnings_values[v] for v in earnings_date_value if v in earnings_values] *)
RECURSIVE ValidValues(_)
ValidValues(l) ==
    IF Len(l) = 0 THEN <<>>
    ELSE (IF l[1] \in DOMAIN earnings_values THEN <<earnings_values[l[1]]>> ELSE <<>>)
         \o ValidValues(Tail(l))

(* EarningsListFilter with the prefix repeated on every value *)
EarningsListFilter_PrefixAll(valid_values) ==
    "earningsdate_" \o Join(valid_values, "|earningsdate_")

(* the list case: prefix on the first value only, the rest joined with | *)
EarningsListFilter(valid_values) ==
    "earningsdate_" \o valid_values[1]
    \o (IF Len(valid_values) > 1 THEN "|" \o Join(Tail(valid_values), "|") ELSE "")

EarningsListPiece(valid_values) ==
    IF valid_values # <<>> THEN EarningsListFilter(valid_values) \o "," ELSE ""

EarningsDateOf(earnings_date_value) ==
    IF ~Truthy(earnings_date_value) THEN ""
    ELSE IF IsStr(earnings_date_value) /\ Contains(earnings_date_value.s, "x")
         THEN "earningsdate_" \o earnings_date_value.s \o ","
    ELSE IF IsStr(earnings_date_value) /\ earnings_date_value.s \in DOMAIN earnings_values
         THEN "earningsdate_" \o earnings_values[earnings_date_value.s] \o ","
    ELSE IF earnings_date_value.t = "list"
         THEN EarningsListPiece(ValidValues(earnings_date_value.l))
    ELSE ""

(* the earnings_date step (string range, keyword, keyword list) *)
EarningsDatePiece(f) == EarningsDateOf(Get(f, "earnings_date"))

(* everything after the if/elif/else of the profile selector *)
CommonPieces(f) ==
    RsiPiece(f) \o MovingAveragePieces(f) \o PePiece(f) \o DividendYieldPiece(f)
    \o SectorPiece(f) \o EarningsDatePiece(f)
    \o App(Has(f, "eps_growth_qoq_min") /\ NotNone(f["eps_growth_qoq_min"]),
           "fa_epsqoq_o" \o _safe_numeric_conversion(Get(f, "eps_growth_qoq_min")) \o ",")
    \o App(Has(f, "eps_revision_min") /\ NotNone(f["eps_revision_min"]),
           "fa_epsrev_eo" \o _safe_numeric_conversion(Get(f, "eps_revision_min")) \o ",")
    \o App(Has(f, "sales_growth_qoq_min") /\ NotNone(f["sales_growth_qoq_min"]),
           "fa_salesqoq_o" \o _safe_numeric_conversion(Get(f, "sales_growth_qoq_min")) \o ",")
    \o App(Truthy(Get(f, "earnings_recent")), "earningsdate_yesterdayafter|todaybefore,")
    \o App(Truthy(Get(f, "earnings_revision_positive")), "fa_epsrev_ep,")
    \o App(Truthy(Get(f, "price_change_positive")), "ta_change_u,")
    \o App(Has(f, "price_change_min") /\ NotNone(f["price_change_min"]),
           "ta_change_u" \o _safe_numeric_conversion(Get(f, "price_change_min")) \o ",")
    \o App(Has(f, "performance_4w_range")
           /\ PyEq(f["performance_4w_range"], StrV("0_to_negative_4w")), "ta_perf_0to-4w,")
    \o App(Has(f, "volatility_min") /\ NotNone(f["volatility_min"]),
           "ta_volatility_" \o _safe_numeric_conversion(Get(f, "volatility_min")) \o "tox,")
    \o App(Truthy(Get(f, "weekly_performance")),
           "ta_perf_" \o PyStr(Get(f, "weekly_performance")) \o ",")
    \o App(Has(f, "afterhours_change_min") /\ NotNone(f["afterhours_change_min"]),
           "ah_change_u" \o _safe_numeric_conversion(Get(f, "afterhours_change_min")) \o ",")
    \o App(Truthy(Get(f, "exclude_etfs")), "geo_usa,")
    \o App(Truthy(Get(f, "subtheme")) /\ IsStr(Get(f, "subtheme")),
           "subtheme_" \o ToLower(Get(f, "subtheme").s) \o ",")

(* a dict as a function on the keys present *)
NoParams == [k \in {} |-> ""]
Entry(cond, k, v) == IF cond THEN (k :> v) ELSE NoParams

(* what the selected branch leaves in params['f'] ("" with has = FALSE: key unset) *)
Joined(filter_parts) == [has |-> TRUE, f |-> Join(filter_parts, ",")]

UptrendFilter(filter_parts) ==
    IF filter_parts # <<>> THEN [has |-> TRUE, f |-> Join(filter_parts, ",") \o ","]
    ELSE [has |-> FALSE, f |-> ""]

GenericFilter(pieces) == [has |-> pieces # "", f |-> pieces]

BranchOf(profile, f) ==
    CASE profile = "volume_surge" -> Joined(VolumeSurgeParts)
      [] profile = "earnings_afterhours" -> Joined(EarningsAfterhoursParts(f))
      [] profile = "earnings_trading" -> Joined(EarningsTradingParts(f))
      [] profile = "uptrend" -> UptrendFilter(UptrendParts(f))
      [] OTHER -> GenericFilter(GenericPieces(f))

BranchFilter(f) == BranchOf(Profile(f), f)

(* 'ft', 'o' and 'ar' as the two earnings recipes set them *)
RecipeExtrasOf(profile, f) ==
    IF profile \in {"earnings_afterhours", "earnings_trading"}
    THEN Entry(Truthy(Get(f, "stocks_only")), "ft", "4")
         @@ Entry(PyEq(Get(f, "sort_by"),
                       StrV(IF profile = "earnings_afterhours"
                            THEN "afterhours_change" ELSE "eps_surprise")),
                  "o", IF profile = "earnings_afterhours"
                       THEN "-afterchange" ELSE "-epssurprise")
         @@ Entry(Truthy(Get(f, "max_results")), "ar", PyStr(Get(f, "max_results")))
    ELSE NoParams

RecipeExtras(f) == RecipeExtrasOf(Profile(f), f)

(* the filter string before the final rstrip(',') *)
RawFilter(f) == BranchFilter(f).f \o CommonPieces(f)

(* the params dict without the final rstrip(',') *)
Assemble_NoStrip(f, branch, common) ==
    RecipeExtras(f)
    @@ Entry(branch.has \/ common # "", "f", branch.f \o common)
    @@ ("v" :> "151") @@ ("o" :> SortParam(f)) @@ ("c" :> AllColumns)

(* the params dict from what the branch and the common steps appended *)
Assemble(f, branch, common) ==
    RecipeExtras(f)
    @@ Entry(branch.has \/ common # "", "f", RStrip(branch.f \o common, ","))
    @@ ("v" :> "151") @@ ("o" :> SortParam(f)) @@ ("c" :> AllColumns)

_convert_filters_to_finviz(f) == Assemble(f, BranchFilter(f), CommonPieces(f))

-----------------------------------------------------------------------------
(* FilterSpecs handed to the compiler                                       *)

(* _build_volume_surge_filters *)
_build_volume_surge_filters ==
    [market_cap |-> StrV("smallover"), avg_volume_min |-> IntV(100000),
     price_min |-> FloatV(10 * Scale), relative_volume_min |-> FloatV(150),
     price_change_min |-> FloatV(2 * Scale), sma200_above |-> BoolV(TRUE),
     sort_by |-> StrV("price_change"), sort_order |-> StrV("desc"),
     stocks_only |-> BoolV(TRUE)]

(* _build_uptrend_filters *)
_build_uptrend_filters ==
    [market_cap |-> StrV("microover"), avg_volume_min |-> IntV(100),
     price_min |-> IntV(10), near_52w_high |-> IntV(30),
     performance_4w_positive |-> BoolV(TRUE), sma20_above |-> BoolV(TRUE),
     sma200_above |-> BoolV(TRUE), sma50_above_sma200 |-> BoolV(TRUE),
     sort_by |-> StrV("eps_growth_yoy"), sort_order |-> StrV("desc"),
     stocks_only |-> BoolV(TRUE)]

(* _build_earnings_afterhours_filters *)
_build_earnings_afterhours_filters ==
    [earnings_date |-> StrV("today_after"), market_cap |-> StrV("smallover"),
     avg_volume_min |-> IntV(100000), price_min |-> FloatV(10 * Scale),
     afterhours_change_min |-> FloatV(2 * Scale), stocks_only |-> BoolV(TRUE),
     sort_by |-> StrV("afterhours_change"), sort_order |-> StrV("desc"),
     max_results |-> IntV(60)]

(* _build_earnings_trading_filters *)
_build_earnings_trading_filters ==
    [earnings_recent |-> BoolV(TRUE), market_cap |-> StrV("midover"),
     earnings_revision_positive |-> BoolV(TRUE), net_margin_min |-> FloatV(3 * Scale),
     avg_volume_min |-> IntV(200000), price_min |-> FloatV(30 * Scale),
     price_change_positive |-> BoolV(TRUE),
     performance_4w_range |-> StrV("0_to_negative_4w"), stocks_only |-> BoolV(TRUE),
     sort_by |-> StrV("eps_surprise"), sort_order |-> StrV("desc"),
     max_results |-> IntV(60), screener_type |-> StrV("earnings_trading")]

EmptyFilters == [k \in {} |-> None]

BaseFilters ==
    {EmptyFilters, _build_volume_surge_filters, _build_uptrend_filters,
     _build_earnings_afterhours_filters, _build_earnings_trading_filters}

(* single entries a caller may set on top of a base FilterSpec *)
EntryPool ==
    {<<"market_cap", StrV("smallover")>>, <<"market_cap", StrV("microover")>>,
     <<"market_cap", StrV("10to20")>>,
     <<"market_cap_min", IntV(10)>>, <<"market_cap_min", FloatV(10 * Scale)>>,
     <<"market_cap_max", IntV(20)>>,
     <<"price_min", FloatV(1050)>>, <<"price_min", IntV(5)>>, <<"price_min", StrV("o5")>>,
     <<"price_max", FloatV(2011)>>, <<"price_max", IntV(100)>>, <<"price_max", StrV("u10")>>,
     <<"volume_min", IntV(100000)>>, <<"volume_min", StrV("o100")>>,
     <<"volume_max", IntV(500000)>>,
     <<"avg_volume_min", StrV("o100")>>, <<"avg_volume_min", IntV(200000)>>,
     <<"avg_volume_max", IntV(500000)>>,
     <<"relative_volume_min", FloatV(150)>>, <<"relative_volume_min", StrV("o1.5")>>,
     <<"relative_volume_max", FloatV(3 * Scale)>>,
     <<"price_change_min", FloatV(2 * Scale)>>, <<"price_change_min", StrV("o5")>>,
     <<"price_change_max", IntV(10)>>,
     <<"near_52w_high", IntV(30)>>,
     <<"performance_4w_positive", BoolV(TRUE)>>,
     <<"rsi_min", IntV(30)>>, <<"rsi_min", StrV("o30")>>, <<"rsi_max", IntV(70)>>,
     <<"sma50_above", BoolV(TRUE)>>, <<"sma200_above", BoolV(TRUE)>>,
     <<"pe_min", StrV("o15")>>, <<"pe_max", IntV(30)>>, <<"pe_max", StrV("u30")>>,
     <<"dividend_yield_min", FloatV(250)>>, <<"dividend_yield_min", StrV("o2")>>,
     <<"dividend_yield_max", IntV(5)>>,
     <<"sectors", ListV(<<"Technology", "Bogus", "Energy">>)>>,
     <<"earnings_date", StrV("today_after")>>,
     <<"earnings_date", ListV(<<"today_after", "tomorrow_before">>)>>,
     <<"earnings_date", ListV(<<"bogus", "this_week", "nope", "today">>)>>,
     <<"earnings_date", ListV(<<"bogus">>)>>,
     <<"earnings_date", StrV("06-30-2025x07-04-2025")>>,
     <<"eps_growth_qoq_min", IntV(10)>>, <<"eps_revision_min", IntV(5)>>,
     <<"sales_growth_qoq_min", IntV(5)>>,
     <<"earnings_recent", BoolV(TRUE)>>, <<"earnings_revision_positive", BoolV(TRUE)>>,
     <<"price_change_positive", BoolV(TRUE)>>,
     <<"performance_4w_range", StrV("0_to_negative_4w")>>,
     <<"volatility_min", FloatV(Scale)>>,
     <<"weekly_performance", StrV("5to-1w")>>,
     <<"afterhours_change_min", FloatV(2 * Scale)>>,
     <<"exclude_etfs", BoolV(TRUE)>>,
     <<"subtheme", StrV("AICloud")>>,
     <<"stocks_only", BoolV(TRUE)>>,
     <<"screener_type", StrV("earnings_trading")>>,
     <<"sort_by", StrV("price_change")>>, <<"sort_by", StrV("bogus")>>,
     <<"sort_order", StrV("asc")>>,
     <<"max_results", IntV(60)>>, <<"max_results", IntV(5000)>>}

(* how many entries a caller sets on top of a base FilterSpec *)
MaxExtra == 2

RECURSIVE EntrySets(_)
EntrySets(k) ==
    IF k = 0 THEN {{}}
    ELSE LET smaller == EntrySets(k - 1)
         IN  smaller \cup
             {S \cup {e} : <<S, e>> \in
                 {<<S, e>> \in smaller \X EntryPool : \A d \in S : d[1] # e[1]}}

(* base with the entries of S set (dict update) *)
WithEntries(base, S) ==
    [k \in DOMAIN base \cup {e[1] : e \in S} |->
        IF \E e \in S : e[1] = k THEN (CHOOSE e \in S : e[1] = k)[2] ELSE base[k]]

FilterSpecs == {WithEntries(b, S) : b \in BaseFilters, S \in EntrySets(MaxExtra)}

-----------------------------------------------------------------------------
(* The compiler as a state machine: a caller holds a FilterSpec and calls   *)
(* _convert_filters_to_finviz once.                                         *)

CompileIdle == /\ filters = EmptyFilters /\ params = NoParams /\ cpc = "idle"
CleanIdle   == /\ cell = "" /\ cleaned = [t |-> "none", n |-> 0, e |-> 0] /\ npc = "idle"
LadderIdle  == /\ volume = None /\ bucket = "" /\ vpc = "idle"
FetchIdle   == /\ api_key = "" /\ env_api_key = "" /\ retries = 0 /\ attempt = 0 /\ rpc = "idle" /\ events = <<>>
               /\ path = "none" /\ body = "" /\ outcome = "pending"
BulkIdle    == /\ tickers = <<>> /\ data_fields = <<>> /\ bpc = "idle"
               /\ df = [columns |-> <<>>, rows |-> <<>>]
               /\ idx = 0 /\ results = <<>> /\ requests = <<>>

InitCompile ==
    /\ filters \in FilterSpecs
    /\ params = NoParams
    /\ cpc = "start"
    /\ CleanIdle /\ LadderIdle /\ FetchIdle /\ BulkIdle

(* the caller's dict once _convert_filters_to_finviz has run: the function
   reads it ('k' in filters, filters[k], filters.get(k, default), iteration
   over its lists) and stores into params and into fresh lists only *)
FiltersAfterConvert_PopSort(f) == [k \in DOMAIN f \ {"sort_by"} |-> f[k]]

FiltersAfterConvert(f) == f

Convert ==
    /\ cpc = "start"
    /\ params' = _convert_filters_to_finviz(filters)
    /\ filters' = FiltersAfterConvert(filters)
    /\ cpc' = "done"
    /\ UNCHANGED <<cleanVars, ladderVars, fetchVars, bulkVars>>

NextCompile == Convert

SpecCompile == InitCompile /\ [][NextCompile]_vars

F == IF "f" \in DOMAIN params THEN params["f"] ELSE ""

(* the segments of the compiled filter string *)
Segments == Split(F, ",")

(* number of places where p occurs in s *)
Occurrences(s, p) ==
    Cardinality({i \in 1..(Len(s) - Len(p) + 1) : SubSeq(s, i, i + Len(p) - 1) = p})

(* the tokens the compiler emitted, in order: the recipe's filter_parts, then
   one token per piece appended with a trailing comma *)
PieceTokens(pieces) == IF pieces = "" THEN <<>> ELSE Split(RStrip(pieces, ","), ",")

EmittedTokens(f) ==
    LET profile == Profile(f)
    IN  (CASE profile = "volume_surge" -> VolumeSurgeParts
           [] profile = "earnings_afterhours" -> EarningsAfterhoursParts(f)
           [] profile = "earnings_trading" -> EarningsTradingParts(f)
           [] profile = "uptrend" -> UptrendParts(f)
           [] OTHER -> PieceTokens(GenericPieces(f)))
        \o PieceTokens(CommonPieces(f))

(* <dimension-prefix>_<encoded-value>: something on both sides of a '_' *)
IsToken(t) == \E i \in 2..(Len(t) - 1) : SubSeq(t, i, i) = "_"

-----------------------------------------------------------------------------
(* C1: compiling the FilterSpec built by _build_volume_surge_filters yields,
   once the whole function has run, the filter string
   cap_smallover,ind_stocksonly,sh_avgvol_o100,sh_price_o10,sh_relvol_o1.5,ta_change_u2,ta_sma200_pa
   and nothing else. *)
C1_VolumeSurgeFilterString ==
    (cpc = "done" /\ filters = _build_volume_surge_filters)
        => F = "cap_smallover,ind_stocksonly,sh_avgvol_o100,sh_price_o10,sh_relvol_o1.5,ta_change_u2,ta_sma200_pa"

(* C3: for every FilterSpec the final filter string, split on ',', is the list
   of the tokens the compiler emitted: every segment is one complete
   <prefix>_<value> token, no two tokens are run together, no segment is empty. *)
C3_SegmentsAreTokens ==
    (cpc = "done" /\ "f" \in DOMAIN params)
        => /\ Segments = EmittedTokens(filters)
           /\ \A i \in 1..Len(Segments) : Segments[i] # "" /\ IsToken(Segments[i])

(* ^[ou]<number>: o or u, then digits with at most one decimal point *)
IsPreset(v) ==
    /\ IsStr(v) /\ StartsWithAny(v.s, {"o", "u"})
    /\ IsDigitStr(RemoveChar(Tail(v.s), "."))
    /\ Occurrences(v.s, ".") <= 1
    /\ ~StartsWith(Tail(v.s), ".") /\ ~EndsWith(v.s, ".")

ThresholdDimensions ==
    {<<"sh_price_", "price_min", "price_max">>,
     <<"sh_volume_", "volume_min", "volume_max">>,
     <<"sh_avgvol_", "avg_volume_min", "avg_volume_max">>,
     <<"sh_relvol_", "relative_volume_min", "relative_volume_max">>,
     <<"ta_change_", "price_change_min", "price_change_max">>,
     <<"ta_rsi_", "rsi_min", "rsi_max">>,
     <<"fa_pe_", "pe_min", "pe_max">>,
     <<"fa_div_", "dividend_yield_min", "dividend_yield_max">>}

InSegments(t) == \E i \in 1..Len(Segments) : Segments[i] = t

(* C4: on the generic path, a threshold dimension given one bound (min or max)
   as an already-encoded preset ^[ou]<number> yields the token <prefix>_<preset>,
   the preset unchanged. *)
C4_PresetPassThrough ==
    (cpc = "done" /\ Profile(filters) = "generic")
        => \A d \in ThresholdDimensions :
              /\ (IsPreset(Get(filters, d[2])) /\ ~Has(filters, d[3]))
                    => InSegments(d[1] \o filters[d[2]].s)
              /\ (IsPreset(Get(filters, d[3])) /\ ~Has(filters, d[2]))
                    => InSegments(d[1] \o filters[d[3]].s)

(* a numeric bound rendered literally: integral without a decimal point,
   otherwise with its own decimal digits *)
Rendered(v) == IF v.n % Scale = 0 THEN IntStr(v.n \div Scale) ELSE FloatStr(v.n)

IsNumber(v) == v.t \in {"int", "float"}

RECURSIVE SelectPrefixed(_, _)
SelectPrefixed(segs, prefix) ==
    IF Len(segs) = 0 THEN <<>>
    ELSE (IF StartsWith(segs[1], prefix) THEN <<segs[1]>> ELSE <<>>)
         \o SelectPrefixed(Tail(segs), prefix)

(* C5: on the generic path with numeric price bounds: both => the one token
   sh_price_<min>to<max>; only min => sh_price_o<min>; only max =>
   sh_price_u<max>; neither => no sh_price token
   (10.5 and 20.11 => sh_price_10.5to20.11, 5 => sh_price_o5, 100 => sh_price_u100). *)
C5_PriceRangeEncoding ==
    LET lo == Get(filters, "price_min")
        hi == Get(filters, "price_max")
        price_tokens == SelectPrefixed(Segments, "sh_price_")
    IN  (cpc = "done" /\ Profile(filters) = "generic"
         /\ lo.t \in {"none", "int", "float"} /\ hi.t \in {"none", "int", "float"})
        => /\ (IsNumber(lo) /\ IsNumber(hi))
                => price_tokens = <<"sh_price_" \o Rendered(lo) \o "to" \o Rendered(hi)>>
           /\ (IsNumber(lo) /\ ~IsNumber(hi))
                => price_tokens = <<"sh_price_o" \o Rendered(lo)>>
           /\ (~IsNumber(lo) /\ IsNumber(hi))
                => price_tokens = <<"sh_price_u" \o Rendered(hi)>>
           /\ (~IsNumber(lo) /\ ~IsNumber(hi)) => price_tokens = <<>>
           /\ (lo = FloatV(1050) /\ hi = FloatV(2011))
                => price_tokens = <<"sh_price_10.5to20.11">>
           /\ (lo = IntV(5) /\ hi = None) => price_tokens = <<"sh_price_o5">>
           /\ (lo = None /\ hi = IntV(100)) => price_tokens = <<"sh_price_u100">>

C5_Witness ==
    /\ cpc = "done" /\ Profile(filters) = "generic"
    /\ Get(filters, "price_min") = FloatV(1050) /\ Get(filters, "price_max") = FloatV(2011)
    /\ InSegments("sh_price_10.5to20.11")

(* the recognised keywords of a list, in list order, in provider form *)
RECURSIVE Recognised(_)
Recognised(l) ==
    IF Len(l) = 0 THEN <<>>
    ELSE IF l[1] \in DOMAIN earnings_values
         THEN <<earnings_values[l[1]]>> \o Recognised(Tail(l))
         ELSE Recognised(Tail(l))

RECURSIVE OrJoined(_)
OrJoined(l) == IF Len(l) = 0 THEN "" ELSE "|" \o l[1] \o OrJoined(Tail(l))

EarningsRecentToken == "earningsdate_yesterdayafter|todaybefore"

(* C7: when earnings_date is a list of keywords, exactly one earnings-date
   token comes from it: earningsdate_ and the provider form of the first
   recognised keyword, then each further recognised keyword after a '|' with
   no prefix, in list order; unrecognised keywords are dropped, and nothing is
   emitted when none is recognised.  (Tokens of the separate earnings_recent
   flag are counted apart.) *)
C7_EarningsDateList ==
    LET value == Get(filters, "earnings_date")
        rec == Recognised(value.l)
        expected == "earningsdate_" \o rec[1] \o OrJoined(Tail(rec))
        at == {i \in 1..(Len(F) - Len(expected) + 1) :
                  SubSeq(F, i, i + Len(expected) - 1) = expected}
    IN  (cpc = "done" /\ value.t = "list")
        => /\ rec = <<>>
                => Occurrences(F, "earningsdate_") = Occurrences(F, EarningsRecentToken)
           /\ rec # <<>>
                => /\ Cardinality(at) = 1
                   /\ \A i \in at : i + Len(expected) - 1 = Len(F)
                                     \/ SubSeq(F, i + Len(expected), i + Len(expected)) = ","
                   /\ Occurrences(F, "earningsdate_")
                        = 1 + Occurrences(F, EarningsRecentToken)
           /\ value = ListV(<<"today_after", "tomorrow_before">>)
                => Occurrences(F, "earningsdate_todayafter|tomorrowbefore") = 1

C7_Witness ==
    /\ cpc = "done"
    /\ Get(filters, "earnings_date") = ListV(<<"bogus", "this_week", "nope", "today">>)
    /\ InSegments("earningsdate_thisweek|today")

-----------------------------------------------------------------------------
SortBy == Get(filters, "sort_by")

Mapped == IsStr(SortBy) /\ SortBy.s \in DOMAIN sort_mapping

Descending == ~Has(filters, "sort_order") \/ filters["sort_order"] = StrV("desc")

(* the sort parameter the lookup table gives *)
TableSort ==
    IF Mapped THEN (IF Descending THEN "-" ELSE "") \o sort_mapping[SortBy.s]
    ELSE "-ticker"

(* the sort parameter an earnings recipe sets for its own sort key *)
RecipeSort ==
    CASE Profile(filters) = "earnings_afterhours" /\ SortBy = StrV("afterhours_change")
            -> "-afterchange"
      [] Profile(filters) = "earnings_trading" /\ SortBy = StrV("eps_surprise")
            -> "-epssurprise"
      [] OTHER -> TableSort

(* C15 as stated: 'o' is always present; for a sort_by of the lookup table
   it is the mapped provider field, with '-' in front exactly when sort_order
   is 'desc' (the default); for an absent or unmapped sort_by it is '-ticker'. *)
C15_SortParamByTable ==
    cpc = "done" => "o" \in DOMAIN params /\ params["o"] = TableSort

(* C15 amended: as stated, except on the two earnings recipe paths, where
   sort_by = 'afterhours_change' (earnings_afterhours) gives '-afterchange'
   and sort_by = 'eps_surprise' (earnings_trading) gives '-epssurprise'
   whatever sort_order is. *)
C15_SortParam ==
    cpc = "done" => "o" \in DOMAIN params /\ params["o"] = RecipeSort

C15_Witness ==
    /\ cpc = "done" /\ Profile(filters) = "generic"
    /\ SortBy = StrV("price_change") /\ ~Has(filters, "sort_order")
    /\ "o" \in DOMAIN params /\ params["o"] = "-change"

(* C17: for every FilterSpec, a compiled filter string f does not end
   with ','. *)
C17_NoTrailingComma ==
    (cpc = "done" /\ "f" \in DOMAIN params) => ~EndsWith(params["f"], ",")

C17_Witness ==
    /\ cpc = "done" /\ "f" \in DOMAIN params
    /\ EndsWith(RawFilter(filters), ",")
    /\ params["f"] \o "," = RawFilter(filters)

(* the recipes in the order of their priority, and their predicates *)
Priority == <<"volume_surge", "earnings_afterhours", "earnings_trading", "uptrend">>

Matches(name, f) ==
    CASE name = "volume_surge" -> IsVolumeSurge(f)
      [] name = "earnings_afterhours" -> IsEarningsAfterhours(f)
      [] name = "earnings_trading" -> IsEarningsTrading(f)
      [] name = "uptrend" -> IsUptrend(f)

Matching(f) == {i \in 1..Len(Priority) : Matches(Priority[i], f)}

(* the first recipe of the priority list whose predicate holds *)
Winner(f) ==
    IF Matching(f) = {} THEN "generic"
    ELSE Priority[CHOOSE i \in Matching(f) : \A j \in Matching(f) : i <= j]

VolumeSurgeWithEarningsDate ==
    WithEntries(_build_volume_surge_filters, {<<"earnings_date", StrV("today_after")>>})

EarningsTradingWithUptrend ==
    WithEntries(_build_earnings_trading_filters,
                {<<"market_cap", StrV("microover")>>, <<"near_52w_high", IntV(30)>>})

(* C19: every FilterSpec is compiled by exactly one branch, the first of
   volume-surge > earnings-afterhours > earnings-trading > uptrend > generic
   whose predicate holds; when several recipe predicates hold, the filter
   string is the one of the highest-priority recipe (followed by the common
   steps' tokens) and holds no token list of a lower-priority recipe. *)
C19_ProfilePriority ==
    cpc = "done" =>
        /\ F = RStrip(BranchOf(Winner(filters), filters).f \o CommonPieces(filters), ",")
        /\ filters = VolumeSurgeWithEarningsDate =>
              /\ StartsWith(F, Join(VolumeSurgeParts, ","))
              /\ Occurrences(F, "cap_smallover") = 1
              /\ Occurrences(F, "sh_avgvol_") = 1 /\ Occurrences(F, "sh_price_") = 1
        /\ filters = EarningsTradingWithUptrend =>
              /\ StartsWith(F, Join(EarningsTradingParts(filters), ","))
              /\ Occurrences(F, "cap_microover") = 0
              /\ Occurrences(F, "ta_highlow52w_") = 0

C19_Witness ==
    /\ cpc = "done" /\ filters = VolumeSurgeWithEarningsDate
    /\ Cardinality(Matching(filters)) = 2
    /\ StartsWith(F, "cap_smallover,ind_stocksonly,sh_avgvol_o100,sh_price_o10,sh_relvol_o1.5,")

RenderedDimensions ==
    {<<"sh_price_", "price_min", "price_max">>,
     <<"sh_relvol_", "relative_volume_min", "relative_volume_max">>,
     <<"ta_change_", "price_change_min", "price_change_max">>,
     <<"ta_rsi_", "rsi_min", "rsi_max">>,
     <<"fa_pe_", "pe_min", "pe_max">>,
     <<"fa_div_", "dividend_yield_min", "dividend_yield_max">>}

(* C20: on the generic path every threshold dimension (price, relative
   volume, price change, RSI, P/E, dividend yield) writes a numeric bound
   literally into its token: an integral value without a decimal point, a
   non-integral value with its own decimal digits (5.0 => 5, 10.5 => 10.5,
   1.5 => 1.5).  Either form of a one-sided token is accepted. *)
C20_LiteralRendering ==
    (cpc = "done" /\ Profile(filters) = "generic")
        => \A d \in RenderedDimensions :
              LET lo == Get(filters, d[2])
                  hi == Get(filters, d[3])
              IN  /\ (IsNumber(lo) /\ ~Has(filters, d[3]))
                        => \/ InSegments(d[1] \o "o" \o Rendered(lo))
                           \/ InSegments(d[1] \o Rendered(lo) \o "to")
                  /\ (IsNumber(hi) /\ ~Has(filters, d[2]))
                        => \/ InSegments(d[1] \o "u" \o Rendered(hi))
                           \/ InSegments(d[1] \o "to" \o Rendered(hi))
                  /\ (IsNumber(lo) /\ IsNumber(hi))
                        => InSegments(d[1] \o Rendered(lo) \o "to" \o Rendered(hi))

(* the scalar dimensions that take a minimum and a maximum: token prefix,
   minimum key, maximum key *)
ScalarDimensions ==
    {<<"cap_", "market_cap_min", "market_cap_max">>,
     <<"sh_price_", "price_min", "price_max">>,
     <<"sh_volume_", "volume_min", "volume_max">>,
     <<"sh_avgvol_", "avg_volume_min", "avg_volume_max">>,
     <<"sh_relvol_", "relative_volume_min", "relative_volume_max">>,
     <<"ta_change_", "price_change_min", "price_change_max">>,
     <<"ta_rsi_", "rsi_min", "rsi_max">>,
     <<"fa_pe_", "pe_min", "pe_max">>,
     <<"fa_div_", "dividend_yield_min", "dividend_yield_max">>}

(* t is <prefix><min>to<max> with something on both sides of 'to' *)
IsRangeToken(t, prefix) ==
    /\ StartsWith(t, prefix)
    /\ \E i \in (Len(prefix) + 2)..(Len(t) - 2) : SubSeq(t, i, i + 1) = "to"

(* t is <prefix>u<max> or <prefix>to<max> with a non-empty <max> *)
IsMaxToken(t, prefix) ==
    \/ StartsWith(t, prefix \o "u") /\ Len(t) > Len(prefix) + 1
    \/ StartsWith(t, prefix \o "to") /\ Len(t) > Len(prefix) + 2

(* C21: on the generic path, for every scalar dimension with a minimum and a
   maximum, two plain numeric bounds give one token <prefix>_<min>to<max>,
   and a numeric maximum alone gives a token carrying it (<prefix>_u<max> or
   <prefix>_to<max>): a supplied bound is never dropped. *)
C21_BoundsKept ==
    (cpc = "done" /\ Profile(filters) = "generic")
        => \A d \in ScalarDimensions :
              LET lo == Get(filters, d[2])
                  hi == Get(filters, d[3])
              IN  /\ (IsNumber(lo) /\ IsNumber(hi))
                        => \E i \in 1..Len(Segments) : IsRangeToken(Segments[i], d[1])
                  /\ (IsNumber(hi) /\ ~Has(filters, d[2]))
                        => \E i \in 1..Len(Segments) : IsMaxToken(Segments[i], d[1])

(* the token prefixes a filter dimension owns, each with the keys of the
   dimensions that write it *)
PrefixGroups ==
    {<<"ta_change_", {{"price_change_min", "price_change_max"}, {"price_change_positive"}}>>,
     <<"earningsdate_", {{"earnings_date"}, {"earnings_recent"}}>>,
     <<"ah_change_", {{"afterhours_change_min"}}>>,
     <<"fa_epsrev_", {{"eps_revision_min"}, {"earnings_revision_positive"}}>>,
     <<"cap_", {{"market_cap"}, {"market_cap_min", "market_cap_max"}}>>}

(* the dimensions of a group the FilterSpec supplies a value for *)
Supplied(f, dims) == {d \in dims : \E k \in d : Has(f, k) /\ NotNone(f[k])}

(* C22: a filter dimension contributes at most one token: when a FilterSpec
   supplies one dimension of a prefix group (ta_change_, earningsdate_,
   ah_change_, fa_epsrev_, cap_), the compiled filter string holds that
   prefix at most once, on the generic path and on the recipe paths. *)
C22_OneTokenPerDimension ==
    cpc = "done"
        => \A g \in PrefixGroups :
              Cardinality(Supplied(filters, g[2])) = 1 => Occurrences(F, g[1]) <= 1

(* a change of one entry of a FilterSpec: keep it, drop the key, or set it *)
Keep == [op |-> "keep", v |-> None]
Drop == [op |-> "drop", v |-> None]
Set(v) == [op |-> "set", v |-> v]

Changed(f, k, c) ==
    CASE c.op = "keep" -> f
      [] c.op = "drop" -> [x \in DOMAIN f \ {k} |-> f[x]]
      [] OTHER -> [x \in DOMAIN f \cup {k} |-> IF x = k THEN c.v ELSE f[x]]

(* the FilterSpecs that differ from f only in avg_volume_min, price_min,
   relative_volume_min (which the signature needs present) or sma200_above *)
SurgeVariants(f) ==
    {Changed(Changed(Changed(Changed(f, "avg_volume_min", a), "price_min", p),
                     "relative_volume_min", r), "sma200_above", m) :
        a \in {Keep, Drop, Set(IntV(500000))},
        p \in {Keep, Drop},
        r \in {Keep, Set(FloatV(3 * Scale))},
        m \in {Keep, Drop}}

(* C29: once a FilterSpec matches the volume-surge signature, the compiled
   filter string does not depend on its avg_volume_min, price_min,
   relative_volume_min or sma200_above: every FilterSpec that differs only in
   those entries compiles to the same string, which starts with the recipe's
   seven fixed tokens (sh_avgvol_o100, sh_price_o10, sh_relvol_o1.5 and
   ta_sma200_pa among them). *)
C29_SurgeIgnoresInputs ==
    (cpc = "done" /\ IsVolumeSurge(filters)) =>
        /\ StartsWith(F, "cap_smallover,ind_stocksonly,sh_avgvol_o100,sh_price_o10,"
                          \o "sh_relvol_o1.5,ta_change_u2,ta_sma200_pa")
        /\ \A g \in SurgeVariants(filters) :
              /\ IsVolumeSurge(g)
              /\ _convert_filters_to_finviz(g)["f"] = F

C29_Witness ==
    /\ cpc = "done" /\ IsVolumeSurge(filters)
    /\ Get(filters, "price_min") = StrV("o5")
    /\ Get(filters, "avg_volume_min") = IntV(200000)
    /\ Get(filters, "sma200_above") = BoolV(TRUE)
    /\ Occurrences(F, "sh_price_o10") = 1 /\ Occurrences(F, "sh_avgvol_o100") = 1

-----------------------------------------------------------------------------
(* The bucket ladder as a state machine: one call of                        *)
(* _convert_volume_to_finviz_format on a value.                             *)

(* the thresholds of the ladder, in thousands *)
Ladder == {2000, 1000, 750, 500, 400, 300, 200, 100, 50, 0}

(* how far around each threshold, in whole units and in hundredths, the
   inputs are drawn *)
MaxDelta == 2

VolumeInputs ==
    {IntV(t * 1000 + d) : t \in Ladder, d \in (-MaxDelta)..MaxDelta}
    \cup {FloatV(Scale * t * 1000 + d) : t \in Ladder, d \in (-MaxDelta)..MaxDelta}
    \cup {IntV(49999), IntV(1999999), IntV(5000000), FloatV(4999999), BoolV(TRUE)}
    \cup {StrV(x) : x \in {"o500", "u100", "e5", "", "frange", "100to500", "250000",
                           "49999.99", "abc"}}
    \cup {None}

InitLadder ==
    /\ volume \in VolumeInputs
    /\ bucket = ""
    /\ vpc = "start"
    /\ CompileIdle /\ CleanIdle /\ FetchIdle /\ BulkIdle

ConvertVolume ==
    /\ vpc = "start"
    /\ bucket' = _convert_volume_to_finviz_format(volume)
    /\ vpc' = "done"
    /\ UNCHANGED <<volume, compileVars, cleanVars, fetchVars, bulkVars>>

NextLadder == ConvertVolume

SpecLadder == InitLadder /\ [][NextLadder]_vars

(* C6: for every non-negative numeric volume v the result is 'o<T>' with T the
   largest ladder value (in thousands) such that T*1000 <= v: a value exactly at
   a threshold gets that threshold's bucket, 0 and 49,999 both get 'o0', and a
   bucket is always returned. *)
C6_LadderFloor ==
    (vpc = "done" /\ IsNumber(volume) /\ volume.n >= 0)
        => /\ \E t \in Ladder :
                /\ Scale * t * 1000 <= volume.n
                /\ \A u \in Ladder : Scale * u * 1000 <= volume.n => u <= t
                /\ bucket = "o" \o ToString(t)
           /\ \A t \in Ladder : volume = IntV(t * 1000) => bucket = "o" \o ToString(t)
           /\ volume \in {IntV(0), IntV(49999)} => bucket = "o0"

C6_Witness ==
    /\ vpc = "done" /\ volume = IntV(750000) /\ bucket = "o750"

-----------------------------------------------------------------------------
(* _clean_numeric_value                                                    *)
(* A result is [t, n, e]: t = "none" for None, else "int" / "float" and the *)
(* number n / 100 * 10^e (the magnitude suffix is kept as the exponent e).  *)

Null == [t |-> "none", n |-> 0, e |-> 0]
Number(t, h, e) == [t |-> t, n |-> h, e |-> e]

DropLast(s) == SubSeq(s, 1, Len(s) - 1)

FloatResult(p, e) == IF p.ok THEN Number("float", p.h, e) ELSE Null

IntResult(p) == IF p.ok THEN Number("int", p.h, 0) ELSE Null

(* float(text) * 10^e, or None on ValueError *)
FloatOrNull(text, e) == FloatResult(ParseFloat(text), e)

StripDollar(value) == IF StartsWith(value, "$") THEN Tail(value) ELSE value

(* the suffix loop and the plain int / float parse, on the cleaned text *)
CleanNumber(v) ==
    IF EndsWith(v, "B") THEN FloatOrNull(DropLast(v), 9)
    ELSE IF EndsWith(v, "M") THEN FloatOrNull(DropLast(v), 6)
    ELSE IF EndsWith(v, "K") THEN FloatOrNull(DropLast(v), 3)
    ELSE IF Contains(v, ".") THEN FloatOrNull(v, 0)
    ELSE IntResult(ParseInt(v))

(* _clean_numeric_value without value.replace(',', '') *)
_clean_numeric_value_KeepCommas(value) ==
    IF value = "" \/ value = "-" \/ value = "N/A" THEN Null
    ELSE IF EndsWith(value, "%") THEN FloatOrNull(DropLast(value), 0)
    ELSE CleanNumber(StripDollar(value))

_clean_numeric_value(value) ==
    IF value = "" \/ value = "-" \/ value = "N/A" THEN Null
    ELSE IF EndsWith(value, "%") THEN FloatOrNull(DropLast(value), 0)
    ELSE CleanNumber(RemoveChar(StripDollar(value), ","))

-----------------------------------------------------------------------------
(* The cell normalizer as a state machine: one call of _clean_numeric_value *)
(* on a raw cell.  A cell is drawn as currency marker, sign, integer part   *)
(* (with or without thousands separators), fraction and suffix; `value` is  *)
(* the number written in it, in hundredths.                                 *)

(* integer parts 0..MaxCellInt are drawn besides the separated ones *)
MaxCellInt == 2

IntParts ==
    {<<ToString(i), i>> : i \in 0..MaxCellInt}
    \cup {<<"12", 12>>, <<"1,234", 1234>>, <<"1,200", 1200>>, <<"12,345,678", 12345678>>}

FracParts == {<<"", 0>>, <<".5", 50>>, <<".50", 50>>, <<".3", 30>>, <<".05", 5>>, <<".2", 20>>}

NumberCells ==
    {[text |-> pre \o sg[1] \o ip[1] \o fp[1] \o suf, kind |-> "number",
      pre |-> pre, suf |-> suf, value |-> sg[2] * (Scale * ip[2] + fp[2]),
      commas |-> Contains(ip[1], ","), dot |-> fp[1] # ""] :
        pre \in {"", "$"}, sg \in {<<"", 1>>, <<"-", -1>>}, ip \in IntParts,
        fp \in FracParts, suf \in {"", "%", "B", "M", "K"}}

TextCells ==
    {[text |-> x, kind |-> "text", pre |-> "", suf |-> "", value |-> 0,
      commas |-> FALSE, dot |-> FALSE] :
        x \in {"-", "N/A", "", "abc", "n/a", "$", "%", "B", "1.2.3", "--5", "Yes"}}

(* cells pandas has already parsed: a number (in hundredths) or NaN *)
ParsedCells ==
    {[text |-> "", kind |-> k, pre |-> "", suf |-> "", value |-> sg * v,
      commas |-> FALSE, dot |-> FALSE] :
        k \in {"parsed"}, sg \in {1, -1}, v \in {Scale * i : i \in 0..MaxCellInt} \cup {5, 1250}}
    \cup {[text |-> "", kind |-> "nan", pre |-> "", suf |-> "", value |-> 0,
            commas |-> FALSE, dot |-> FALSE]}

IsText(c) == c.kind \in {"number", "text"}

Cells == NumberCells \cup TextCells \cup ParsedCells

(* the value a numeric field of StockData holds after the field loop of
   _parse_stock_data_from_csv has seen the cell: the field keeps its default
   None for NaN, takes _clean_numeric_value of a string and float(value) of
   a parsed number unless the number is 0 *)
NumericField(c) ==
    IF c.kind = "nan" THEN Null
    ELSE IF IsText(c) THEN _clean_numeric_value(c.text)
    ELSE IF c.value # 0 THEN Number("float", c.value, 0)
    ELSE Null

InitClean ==
    /\ cell \in Cells
    /\ cleaned = Null
    /\ npc = "start"
    /\ CompileIdle /\ LadderIdle /\ FetchIdle /\ BulkIdle

CleanCell ==
    /\ npc = "start"
    /\ IsText(cell)
    /\ cleaned' = _clean_numeric_value(cell.text)
    /\ npc' = "done"
    /\ UNCHANGED <<cell, compileVars, ladderVars, fetchVars, bulkVars>>

(* one pass of the numeric field loop of _parse_stock_data_from_csv *)
AssignField ==
    /\ npc = "start"
    /\ cleaned' = NumericField(cell)
    /\ npc' = "assigned"
    /\ UNCHANGED <<cell, compileVars, ladderVars, fetchVars, bulkVars>>

NextClean == CleanCell \/ AssignField

SpecClean == InitClean /\ [][NextClean]_vars

SuffixExponent(suf) == CASE suf = "B" -> 9 [] suf = "M" -> 6 [] suf = "K" -> 3 [] OTHER -> 0

(* C8: a leading '$' and ',' separators are removed before numeric parsing
   ('$1,234.50' => 1234.50); a trailing '%' is stripped and the number returned
   ('12.3%' => 12.3); a trailing B/M/K multiplies by 1e9/1e6/1e3
   ('1.2B' => 1,200,000,000); '-', 'N/A' and '' give null. *)
C8_CellCleaning ==
    npc = "done" =>
        /\ cell.text \in {"-", "N/A", ""} => cleaned = Null
        /\ (cell.kind = "number" /\ cell.suf = "")
              => cleaned.t # "none" /\ cleaned.n = cell.value /\ cleaned.e = 0
        /\ (cell.kind = "number" /\ cell.suf = "%" /\ cell.pre = "" /\ ~cell.commas)
              => cleaned.t # "none" /\ cleaned.n = cell.value /\ cleaned.e = 0
        /\ (cell.kind = "number" /\ cell.suf \in {"B", "M", "K"})
              => /\ cleaned.t # "none" /\ cleaned.n = cell.value
                 /\ cleaned.e = SuffixExponent(cell.suf)
        /\ cell.text = "$1,234.50" => cleaned = Number("float", 123450, 0)
        /\ cell.text = "12.3%" => cleaned = Number("float", 1230, 0)
        /\ cell.text = "1.2B" => cleaned = Number("float", 120, 9)

C8_Witness ==
    /\ npc = "done" /\ cell.text = "$1,234.50" /\ cleaned = Number("float", 123450, 0)

(* the raw values that stand for "no value": '-', 'N/A', empty or missing *)
IsSentinel(c) == c.kind = "nan" \/ (IsText(c) /\ c.text \in {"-", "N/A", ""})

(* C23: a cell is normalized to null only when its raw value is '-', 'N/A',
   empty or missing; every other cell, numeric 0 and non-numeric text
   included, yields a value and never null, both from _clean_numeric_value
   and in the record field _parse_stock_data_from_csv assigns. *)
C23_NullOnlyForSentinel ==
    (npc \in {"done", "assigned"} /\ cleaned = Null) => IsSentinel(cell)

(* C24: the currency marker and the thousands separators are stripped before
   the trailing '%' and the magnitude suffix are read: '1,234.5%', '$12.3%'
   and '$1,200M' normalize to 1234.5, 12.3 and 1,200,000,000, and so does
   every number written with a '%' or a B/M/K suffix. *)
C24_StripBeforeSuffix ==
    npc = "done" =>
        /\ cell.text = "1,234.5%" => cleaned = Number("float", 123450, 0)
        /\ cell.text = "$12.3%" => cleaned = Number("float", 1230, 0)
        /\ cell.text = "$1,200M" => cleaned = Number("float", 120000, 6)
        /\ (cell.kind = "number" /\ cell.suf # "")
              => /\ cleaned.t # "none" /\ cleaned.n = cell.value
                 /\ cleaned.e = SuffixExponent(cell.suf)

-----------------------------------------------------------------------------
(* Transport: _make_request and the two fetch functions around it.          *)
(* `events` logs what the transport did: the rate-limit sleep before each   *)
(* attempt, each HTTP attempt with its result, each backoff sleep and the   *)
(* exception that leaves _make_request.                                     *)

(* self.rate_limit_delay, seconds *)
rate_limit_delay == 1

(* default of the retries parameter *)
DefaultRetries == 3

(* direct calls of _make_request take retries in 0..MaxRetries *)
MaxRetries == 4

Event(e, k, secs, result, text) ==
    [e |-> e, k |-> k, secs |-> secs, result |-> result, text |-> text]

(* time.sleep(2 ** attempt) with a linear delay instead *)
BackoffDelay_Linear(k) == 2 * k

BackoffDelay(k) == 2 ^ k

(* the ways session.get / raise_for_status raise a RequestException *)
Failures == {"http_error", "connection_error", "timeout"}

HtmlMarker == "<!DOCTYPE html>"

Bodies ==
    {"<!DOCTYPE html><html><body>Login</body></html>",
     "", "   ", "\n",
     "Ticker,Price\n",
     "Ticker,Price\nAAPL,5\n",
     "Ticker,Company\nAAPL,Some <html> Inc\n",
     "Ticker,Company\nAAPL,Acme <HTML5> Corp\n"}

(* the response texts of the fundamentals requests *)
FundamentalsBodies == {"", "Ticker,Company\n", "Ticker,Company\nAAPL,Apple\n"}

(* pd.read_csv raises EmptyDataError when the text holds no column line *)
ReadCsvFails(text) == Strip(text) = ""

(* _fetch_csv_data after the response arrived *)
ClassifyCsvData(text) ==
    IF StartsWith(text, HtmlMarker) THEN "empty"
    ELSE IF ReadCsvFails(text) THEN "empty"
    ELSE "table"

(* _fetch_csv_from_url after the response arrived *)
ClassifyCsvFromUrl(text) ==
    IF StartsWith(text, HtmlMarker) \/ Contains(ToLower(text), "<html") THEN "empty"
    ELSE IF Strip(text) = "" THEN "empty"
    ELSE IF ReadCsvFails(text) THEN "empty"
    ELSE "table"

Classify(p, text) ==
    IF p = "csv_data" THEN ClassifyCsvData(text) ELSE ClassifyCsvFromUrl(text)

(* the entry points whose request is compiled from a FilterSpec *)
ScreeningPaths == {"csv_data", "screen_stocks"}

(* the cap the provider accepts: min(filters['max_results'], 1000) *)
MaxCap == 1000

(* min(a, b) of two numbers: the first of the smallest *)
PyMin(a, b) == IF b.n < a.n THEN b ELSE a

(* min(filters['max_results'], 1000) raises TypeError for None *)
CapRaises(f) == Has(f, "max_results") /\ ~IsNum(f["max_results"])

(* finviz_params['ar'] without the min *)
CapParam_Unclamped(f) ==
    Entry(Has(f, "max_results"), "ar", PyStr(Get(f, "max_results")))

(* finviz_params['ar'] *)
CapParam(f) ==
    Entry(Has(f, "max_results"), "ar", PyStr(PyMin(Get(f, "max_results"), IntV(MaxCap))))

(* self.api_key if truthy, else os.getenv('FINVIZ_API_KEY') *)
AuthKey(key, env) == IF key # "" THEN key ELSE env

(* the parameters _fetch_csv_data hands to _make_request *)
finviz_params(f, key, env) ==
    ("auth" :> AuthKey(key, env)) @@ CapParam(f) @@ ("ft" :> "4")
    @@ _convert_filters_to_finviz(f)

(* the caller's dict once _fetch_csv_data has run: it is handed to the
   compiler and read for 'max_results' *)
FiltersAfterFetch(f) == FiltersAfterConvert(f)

(* what a caller gets when the handler swallowed an exception:
   pd.DataFrame() from the fetch functions, [] from screen_stocks *)
Caught(p) == IF p = "screen_stocks" THEN "empty_list" ELSE "empty"

LineCount(lines) == Cardinality({k \in 1..Len(lines) : Strip(lines[k]) # ""})

(* len(df) after read_csv: the non-blank lines after the header line *)
CsvRows(text) == IF LineCount(Split(text, "\n")) = 0 THEN 0
                 ELSE LineCount(Split(text, "\n")) - 1

(* df.head(n): the first n rows, all but the last -n for n < 0; a float n
   raises TypeError (ok = FALSE) *)
HeadRows(rows, cap) ==
    IF cap.t = "float" THEN [ok |-> FALSE, rows |-> 0]
    ELSE IF cap.n >= 0 THEN [ok |-> TRUE, rows |-> Trunc(cap.n)]
    ELSE IF rows + Trunc(cap.n) > 0 THEN [ok |-> TRUE, rows |-> rows + Trunc(cap.n)]
    ELSE [ok |-> TRUE, rows |-> 0]

(* the forced result limit after read_csv *)
LimitRows(rows, cap) ==
    IF rows * Scale > cap.n THEN HeadRows(rows, cap) ELSE [ok |-> TRUE, rows |-> rows]

ForceLimit(f, rows) ==
    IF Has(f, "max_results") /\ NotNone(f["max_results"])
    THEN LimitRows(rows, PyMin(f["max_results"], IntV(MaxCap)))
    ELSE [ok |-> TRUE, rows |-> rows]

(* _fetch_csv_data after the response arrived: the class of the frame it
   returns and the number of its rows *)
FrameOf(class, limited) ==
    IF class = "table" /\ limited.ok THEN [class |-> "table", rows |-> limited.rows]
    ELSE [class |-> "empty", rows |-> 0]

FetchedFrame(f, text) == FrameOf(ClassifyCsvData(text), ForceLimit(f, CsvRows(text)))

(* screen_stocks: [] when df.empty, else the list built from the rows *)
ScreenResult(frame) ==
    IF frame.class = "empty" \/ frame.rows = 0 THEN "empty_list" ELSE "row_list"

(* what the entry point returns once the response text is there *)
Returned(p, f, text) ==
    CASE p = "csv_data" -> FetchedFrame(f, text).class
      [] p = "screen_stocks" -> ScreenResult(FetchedFrame(f, text))
      [] OTHER -> Classify(p, text)

(* the result caps a caller sets *)
CapValues ==
    {IntV(0), IntV(60), IntV(MaxCap), IntV(MaxCap + 1), IntV(5 * MaxCap),
     FloatV(5050), FloatV(MaxCap * Scale), FloatV(150050), None}

(* the FilterSpecs of the screening calls: a builder's FilterSpec or the
   empty one, with or without a result cap *)
FetchFilters ==
    {WithEntries(b, S) : b \in BaseFilters,
                         S \in {{}} \cup {{<<"max_results", v>>} : v \in CapValues}
                                   \cup {{<<"sectors", ListV(<<"Technology", "Energy">>)>>},
                                         {<<"earnings_date",
                                            ListV(<<"today_after", "tomorrow_before">>)>>}}}

InitFetch ==
    /\ path \in {"csv_data", "screen_stocks", "csv_from_url", "make_request"}
    /\ retries \in IF path = "make_request" THEN 0..MaxRetries ELSE {DefaultRetries}
    /\ api_key \in {"", "key"}
    /\ env_api_key \in {"", "envkey"}
    /\ filters \in IF path \in ScreeningPaths THEN FetchFilters ELSE {EmptyFilters}
    /\ params = NoParams
    /\ cpc = "idle"
    /\ attempt = 0
    /\ rpc = "start"
    /\ events = <<>>
    /\ body = ""
    /\ outcome = "pending"
    /\ CleanIdle /\ LadderIdle /\ BulkIdle

(* entry.  A screening call compiles the FilterSpec, adds 'ft', 'ar' and
   'auth' and goes on to the request loop; the TypeError of min() and the
   ValueError raised when there is no key are caught by the handler of
   _fetch_csv_data, which returns the empty frame.  The other entry points go
   on to the request loop. *)
Call ==
    /\ rpc = "start"
    /\ IF path \in ScreeningPaths
       THEN /\ filters' = FiltersAfterFetch(filters)
            /\ IF CapRaises(filters) \/ AuthKey(api_key, env_api_key) = ""
               THEN rpc' = "returned" /\ outcome' = Caught(path) /\ params' = params
               ELSE /\ rpc' = "loop" /\ outcome' = outcome
                    /\ params' = finviz_params(filters, api_key, env_api_key)
       ELSE rpc' = "loop" /\ UNCHANGED <<outcome, filters, params>>
    /\ UNCHANGED <<cpc, api_key, env_api_key, retries, attempt, events, path, body,
                   cleanVars, ladderVars, bulkVars>>

(* the response texts and the failures drawn for a call: the per-ticker
   orchestration makes several requests in a row and draws each from a
   smaller set *)
BodiesOf(p) == IF p = "fundamentals" THEN FundamentalsBodies ELSE Bodies

FailuresOf(p) == IF p = "fundamentals" THEN {"timeout"} ELSE Failures

(* the rate-limit sleep taken before the first attempt of a call only *)
RateLimitWait_FirstOnly(k) == IF k = 0 THEN rate_limit_delay ELSE 0

(* the seconds slept at the head of iteration k *)
RateLimitWait(k) == rate_limit_delay

(* the re-raise test taken one iteration late *)
IsLastAttempt_OneMore(k, n) == k = n

(* attempt == retries - 1 *)
IsLastAttempt(k, n) == k = n - 1

(* time.sleep(self.rate_limit_delay) at the head of an iteration *)
RateLimitSleep ==
    /\ rpc = "loop" /\ attempt < retries
    /\ events' = Append(events, Event("rate_limit", attempt, RateLimitWait(attempt), "", ""))
    /\ rpc' = "get"
    /\ UNCHANGED <<api_key, env_api_key, retries, attempt, path, body, outcome,
                   compileVars, cleanVars, ladderVars, bulkVars>>

(* range(retries) is empty: raise Exception("Max retries exceeded") *)
Exhausted ==
    /\ rpc = "loop" /\ attempt >= retries
    /\ events' = Append(events, Event("raise", attempt, 0, "max_retries", ""))
    /\ IF path = "make_request"
       THEN rpc' = "raised" /\ outcome' = outcome
       ELSE rpc' = "returned" /\ outcome' = Caught(path)
    /\ UNCHANGED <<api_key, env_api_key, retries, attempt, path, body,
                   compileVars, cleanVars, ladderVars, bulkVars>>

(* session.get succeeds and raise_for_status passes: the response is
   returned; a fetch function classifies its text at once *)
GetOk ==
    /\ rpc = "get"
    /\ \E text \in BodiesOf(path) :
          /\ events' = Append(events, Event("get", attempt, 0, "ok", text))
          /\ body' = text
          /\ outcome' = IF path = "make_request" THEN outcome
                        ELSE Returned(path, filters, text)
    /\ rpc' = "returned"
    /\ UNCHANGED <<api_key, env_api_key, retries, attempt, path,
                   compileVars, cleanVars, ladderVars, bulkVars>>

(* session.get or raise_for_status raises a RequestException: re-raised on
   the last iteration (and caught by the handler of a fetch function), else
   the backoff sleep follows *)
GetFail ==
    /\ rpc = "get"
    /\ \E why \in FailuresOf(path) :
          LET failed == Append(events, Event("get", attempt, 0, why, ""))
          IN  IF IsLastAttempt(attempt, retries)
              THEN /\ events' = Append(failed, Event("raise", attempt, 0, why, ""))
                   /\ IF path = "make_request"
                      THEN rpc' = "raised" /\ outcome' = outcome
                      ELSE rpc' = "returned" /\ outcome' = Caught(path)
              ELSE /\ events' = failed
                   /\ rpc' = "backoff"
                   /\ outcome' = outcome
    /\ UNCHANGED <<api_key, env_api_key, retries, attempt, path, body,
                   compileVars, cleanVars, ladderVars, bulkVars>>

(* time.sleep(2 ** attempt), then the next iteration *)
Backoff ==
    /\ rpc = "backoff"
    /\ events' = Append(events, Event("backoff", attempt, BackoffDelay(attempt), "", ""))
    /\ attempt' = attempt + 1
    /\ rpc' = "loop"
    /\ UNCHANGED <<api_key, env_api_key, retries, path, body, outcome,
                   compileVars, cleanVars, ladderVars, bulkVars>>

NextFetch == Call \/ RateLimitSleep \/ Exhausted \/ GetOk \/ GetFail \/ Backoff

SpecFetch == InitFetch /\ [][NextFetch]_vars

Last(s) == s[Len(s)]

ResponseReceived == Len(events) > 0 /\ Last(events).e = "get" /\ Last(events).result = "ok"

(* C9: in _fetch_csv_data and in _fetch_csv_from_url a received body that
   begins with the HTML document marker gives an empty result, an empty or
   whitespace-only body gives an empty result, and every other non-empty body
   (also one that holds HTML-like text after its first characters) is parsed
   as a table. *)
C9_BodyClassification ==
    (rpc = "returned" /\ path \in {"csv_data", "csv_from_url"} /\ ResponseReceived) =>
        outcome = IF StartsWith(body, HtmlMarker) THEN "empty"
                  ELSE IF Strip(body) = "" THEN "empty"
                  ELSE "table"

Gets == {i \in 1..Len(events) : events[i].e = "get"}

(* C10: _make_request(retries = R) makes at most R HTTP attempts; the first
   successful attempt ends the call with that response and nothing follows
   it; a failed attempt k that is not the last is followed by a backoff sleep
   of 2^k seconds before attempt k+1; the failure of attempt R-1 is re-raised
   with no backoff sleep. *)
C10_RetryBackoff ==
    /\ Cardinality(Gets) <= retries
    /\ \A i \in Gets :
          /\ events[i].k = Cardinality({j \in Gets : j < i})
          /\ events[i].result = "ok" =>
                /\ i = Len(events)
                /\ rpc = "returned" /\ body = events[i].text
          /\ (events[i].result # "ok" /\ events[i].k < retries - 1 /\ i < Len(events)) =>
                events[i + 1] = Event("backoff", events[i].k, 2 ^ events[i].k, "", "")
          /\ (events[i].result # "ok" /\ events[i].k = retries - 1) =>
                /\ Len(events) = i + 1
                /\ events[i + 1] = Event("raise", events[i].k, 0, events[i].result, "")
                /\ path = "make_request" => rpc = "raised"
          /\ events[i].k > 0 =>
                /\ i > 3
                /\ events[i - 2] = Event("backoff", events[i].k - 1, 2 ^ (events[i].k - 1), "", "")
                /\ events[i - 3].e = "get" /\ events[i - 3].result # "ok"
    /\ rpc = "raised" => Len(events) > 0 /\ Last(events).e = "raise"

C10_Witness ==
    /\ path = "make_request" /\ retries = 3 /\ rpc = "raised"
    /\ Cardinality(Gets) = 3
    /\ \E i \in 1..Len(events) : events[i].e = "backoff" /\ events[i].secs = 2

(* the attempts to which the server answered: with a good status or with an
   error status (raise_for_status) *)
Answered == {i \in Gets : events[i].result \in {"ok", "http_error"}}

(* C11: a request is attempted again only after a transport-level failure
   (timeout, connection error): once the server has answered an attempt,
   whatever the status or the content of the response, _make_request,
   _fetch_csv_data and _fetch_csv_from_url make no further attempt. *)
C11_NoRetryAfterResponse ==
    \A i \in Answered : \A j \in Gets : j <= i

(* every attempt made so far failed with a transient transport error *)
AllTransient ==
    Gets # {} /\ \A i \in Gets : events[i].result \in {"connection_error", "timeout"}

RetriesExhausted == AllTransient /\ Cardinality(Gets) = retries /\ Last(events).e = "raise"

(* C12: when every attempt of a screening request fails with a transient
   transport error and the retries are exhausted, the error is raised to the
   caller of screen_stocks / _fetch_csv_data; no normal result is returned. *)
C12_ExhaustionRaised ==
    (path \in ScreeningPaths /\ RetriesExhausted) =>
        rpc = "raised" /\ outcome = "pending"

(* C13: with no auth token (no api_key, FINVIZ_API_KEY unset) a screening
   call fails at once with an error raised to its caller: no request is made
   and no empty result is returned. *)
C13_MissingKeyRaised ==
    (path \in ScreeningPaths /\ api_key = "" /\ env_api_key = "" /\ rpc # "start") =>
        rpc = "raised" /\ events = <<>> /\ outcome = "pending"

RequestSent == path \in ScreeningPaths /\ Gets # {}

ClampedCap(v) == IF v.n > MaxCap * Scale THEN MaxCap * Scale ELSE v.n

(* C14: for every FilterSpec with a numeric max_results, on the generic
   path and on the recipe paths that set the cap themselves, the 'ar'
   parameter of the request _fetch_csv_data sends is min(max_results, 1000). *)
C14_CapClamped ==
    (RequestSent /\ Has(filters, "max_results") /\ IsNumber(Get(filters, "max_results"))) =>
        /\ "ar" \in DOMAIN params
        /\ ParseFloat(params["ar"]) = Parsed(ClampedCap(filters["max_results"]))

C14_Witness ==
    /\ RequestSent /\ path = "csv_data"
    /\ Profile(filters) = "earnings_trading"
    /\ Get(filters, "max_results") = IntV(5 * MaxCap)
    /\ "ar" \in DOMAIN params /\ params["ar"] = "1000"

(* C16: _convert_filters_to_finviz and _fetch_csv_data leave the caller's
   FilterSpec as it was, same keys and same values (lists included), on the
   recipe paths, the generic path and the error paths. *)
C16_FilterSpecUnchanged == [][filters' = filters]_vars

C16_Witness ==
    /\ path = "csv_data" /\ rpc = "returned" /\ outcome = "empty"
    /\ RetriesExhausted
    /\ Profile(filters) = "uptrend"
    /\ Get(filters, "sectors") = ListV(<<"Technology", "Energy">>)
    /\ "f" \in DOMAIN params

-----------------------------------------------------------------------------
(* Bulk orchestrator: get_multiple_stocks_fundamentals and, for its         *)
(* fallback, get_stock_fundamentals.  A frame is [columns, rows], a row a   *)
(* tuple of cell texts ("" is a NaN cell).  A record is a Python dict kept  *)
(* as the sequence of its <<key, value>> pairs in insertion order; a value  *)
(* is [t, n, e, s]: None, a number n / 100 * 10^e, or the string s.         *)

NoneCell == [t |-> "none", n |-> 0, e |-> 0, s |-> ""]
Text(x) == [t |-> "str", n |-> 0, e |-> 0, s |-> x]
Num(c) == [t |-> c.t, n |-> c.n, e |-> c.e, s |-> ""]

DictHas(d, k) == \E i \in 1..Len(d) : d[i][1] = k

DictGet(d, k) == d[CHOOSE i \in 1..Len(d) : d[i][1] = k][2]

(* d[k] = v: in place when the key exists, else appended *)
DictSet(d, k, v) ==
    IF DictHas(d, k)
    THEN [i \in 1..Len(d) |-> IF d[i][1] = k THEN <<k, v>> ELSE d[i]]
    ELSE Append(d, <<k, v>>)

UpperOf == [c \in {SubSeq(Lower, i, i) : i \in 1..Len(Lower)} |->
               SubSeq(Upper, CHOOSE i \in 1..Len(Lower) : SubSeq(Lower, i, i) = c,
                             CHOOSE i \in 1..Len(Lower) : SubSeq(Lower, i, i) = c)]

UpperChar(c) == IF c \in DOMAIN UpperOf THEN UpperOf[c] ELSE c

(* str.upper() *)
RECURSIVE ToUpper(_)
ToUpper(s) == IF Len(s) = 0 THEN "" ELSE UpperChar(SubSeq(s, 1, 1)) \o ToUpper(Tail(s))

(* col.lower().replace(' ', '_').replace('/', '_').replace('(', '')
      .replace(')', '').replace('.', '').replace('-', '_').replace('%', 'percent') *)
RECURSIVE NormalizeFieldName(_)
NormalizeFieldName(s) ==
    IF Len(s) = 0 THEN ""
    ELSE LET c == SubSeq(s, 1, 1)
             r == CASE c \in {" ", "/", "-"} -> "_"
                    [] c \in {"(", ")", "."} -> ""
                    [] c = "%" -> "percent"
                    [] OTHER -> LowerChar(c)
         IN  r \o NormalizeFieldName(Tail(s))

numeric_keywords ==
    {"price", "volume", "ratio", "margin", "growth", "return", "debt", "shares",
     "cash", "income", "sales", "eps", "dividend", "beta", "avg", "high", "low",
     "change", "float", "cap", "pe", "pb", "ps"}

AnyKeywordIn(field_name, lower_col) ==
    \E kw \in numeric_keywords : Contains(field_name, kw) \/ Contains(lower_col, kw)

IsNumericField(field_name, col) == AnyKeywordIn(field_name, ToLower(col))

(* pd.notna(value) and value != '-' and value != '' *)
CellPresent(value) == value # "" /\ value # "-"

(* converted_value if converted_value is not None else str(value) *)
Converted(c, value) == IF c.t # "none" THEN Num(c) ELSE Text(value)

CellValue(col, value) ==
    IF ~CellPresent(value) THEN NoneCell
    ELSE IF IsNumericField(NormalizeFieldName(col), col)
         THEN Converted(_clean_numeric_value(value), value)
         ELSE Text(value)

(* the loop over available_columns *)
RECURSIVE ExtractRow(_, _, _)
ExtractRow(columns, row, acc) ==
    IF Len(columns) = 0 THEN acc
    ELSE ExtractRow(Tail(columns), Tail(row),
                    DictSet(acc, NormalizeFieldName(Head(columns)),
                            CellValue(Head(columns), Head(row))))

field_aliases(field) ==
    CASE field = "roi" -> "roic"
      [] field = "debt_equity" -> "debt_to_equity"
      [] field = "book_value" -> "book_value_per_share"
      [] field = "performance_week" -> "performance_1w"
      [] field = "performance_month" -> "performance_1m"
      [] field = "short_float" -> "float_short"
      [] OTHER -> field

EitherContains(a, b) == Contains(a, b) \/ Contains(b, a)

PartialMatch(actual, key) == EitherContains(ToLower(key), ToLower(actual))

(* alias, then normalized name, then the name itself, then the first key in
   dict order that matches partially, else None *)
FirstHit(result, hits) ==
    IF hits # {} THEN result[CHOOSE i \in hits : \A j \in hits : i <= j][2]
    ELSE NoneCell

Resolve(result, actual, normalized) ==
    IF DictHas(result, normalized) THEN DictGet(result, normalized)
    ELSE IF DictHas(result, actual) THEN DictGet(result, actual)
    ELSE FirstHit(result, {i \in 1..Len(result) : PartialMatch(actual, result[i][1])})

ResolveActual(result, actual) == Resolve(result, actual, NormalizeFieldName(actual))

ResolveField(result, field) == ResolveActual(result, field_aliases(field))

RECURSIVE SelectFields(_, _, _)
SelectFields(result, fields, acc) ==
    IF Len(fields) = 0 THEN acc
    ELSE SelectFields(result, Tail(fields),
                      DictSet(acc, Head(fields), ResolveField(result, Head(fields))))

(* 'ticker' in result and result['ticker'] *)
HasTicker(result) == DictHas(result, "ticker") /\ DictGet(result, "ticker").t = "str"

(* the body of the row loop for row idx (0-based): <<record>>, or <<>> when
   the row has no ticker and no requested ticker stands at its position *)
Requested(result, fields, acc) ==
    IF Len(fields) > 0 THEN <<SelectFields(result, fields, acc)>> ELSE <<result>>

BulkRequested(result, fields) ==
    Requested(result, fields, <<<<"ticker", DictGet(result, "ticker")>>>>)

(* the row loop taking the first requested ticker for every row without one *)
RowResult_FirstTicker(extracted, i, tks, fields) ==
    IF HasTicker(extracted) THEN BulkRequested(extracted, fields)
    ELSE IF 0 < Len(tks)
         THEN BulkRequested(DictSet(extracted, "ticker", Text(tks[1])), fields)
    ELSE <<>>

RowResult(extracted, i, tks, fields) ==
    IF HasTicker(extracted) THEN BulkRequested(extracted, fields)
    ELSE IF i < Len(tks)
         THEN BulkRequested(DictSet(extracted, "ticker", Text(tks[i + 1])), fields)
    ELSE <<>>

RowRecord(frame, i, tks, fields) ==
    RowResult(ExtractRow(frame.columns, frame.rows[i + 1], <<>>), i, tks, fields)

(* for idx, row in df.iterrows() *)
RECURSIVE RowRecords(_, _, _, _)
RowRecords(frame, i, tks, fields) ==
    IF i >= Len(frame.rows) THEN <<>>
    ELSE RowRecord(frame, i, tks, fields) \o RowRecords(frame, i + 1, tks, fields)

RECURSIVE EmptyResult(_, _)
EmptyResult(acc, fields) ==
    IF Len(fields) = 0 THEN acc
    ELSE EmptyResult(DictSet(acc, Head(fields), NoneCell), Tail(fields))

(* get_stock_fundamentals on the frame its fetch returned: <<record>>, or
   <<>> for None *)
get_stock_fundamentals(frame, ticker, fields) ==
    IF Len(frame.rows) = 0 THEN <<>>
    ELSE Requested(DictSet(ExtractRow(frame.columns, frame.rows[1], <<>>),
                           "ticker", Text(ticker)),
                   fields, <<>>)

(* the placeholder left without the requested fields *)
OrEmptyResult_TickerOnly(individual_data, ticker, fields) ==
    IF Len(individual_data) > 0 /\ Len(individual_data[1]) > 0
    THEN individual_data[1]
    ELSE <<<<"ticker", Text(ticker)>>>>

(* if individual_data: ... else: the placeholder record *)
OrEmptyResult(individual_data, ticker, fields) ==
    IF Len(individual_data) > 0 /\ Len(individual_data[1]) > 0
    THEN individual_data[1]
    ELSE EmptyResult(<<<<"ticker", Text(ticker)>>>>, fields)

(* one iteration of the fallback loop *)
FallbackRecord(frame, ticker, fields) ==
    OrEmptyResult(get_stock_fundamentals(frame, ticker, fields), ticker, fields)

(* ','.join([t.upper() for t in tickers]) *)
TickersParam(tks) == Join([i \in 1..Len(tks) |-> ToUpper(tks[i])], ",")

MaxTickers == 2
MaxRows == 2

TickerUniverse == {"AAPL", "msft"}

SeqsUpTo(S, n) == UNION {[1..k -> S] : k \in 0..n}

FieldLists == {<<>>, <<"price">>, <<"roi", "Price">>, <<"short_float">>}

ColumnSets == {<<"Ticker", "Price">>, <<"Price">>, <<"Ticker", "Short Float">>}

CellsOf(col) ==
    CASE col = "Ticker" -> {"AAPL", "MSFT", "-"}
      [] col = "Short Float" -> {"3.5%"}
      [] OTHER -> {"12.5", "-"}

RowsOf(columns) ==
    {r \in [1..Len(columns) -> {"AAPL", "MSFT", "-", "12.5", "3.5%"}] :
        \A i \in 1..Len(columns) : r[i] \in CellsOf(columns[i])}

(* what a fetch can return: pd.DataFrame() after an HTML page, an empty body
   or a failed request, else the parsed table *)
EmptyFrame == [columns |-> <<>>, rows |-> <<>>]

Frames ==
    {EmptyFrame}
    \cup UNION {{[columns |-> cols, rows |-> rs] : rs \in SeqsUpTo(RowsOf(cols), MaxRows)} :
                  cols \in ColumnSets}

(* what a single-ticker fetch can return; get_stock_fundamentals reads the
   first row only, so one row stands for any longer table *)
SingleFrames == {frame \in Frames : Len(frame.rows) <= 1}

Request(kind, t) == [kind |-> kind, t |-> t]

InitBulk ==
    /\ tickers \in SeqsUpTo(TickerUniverse, MaxTickers)
    /\ data_fields \in FieldLists
    /\ bpc = "start"
    /\ df = EmptyFrame
    /\ idx = 0
    /\ results = <<>>
    /\ requests = <<>>
    /\ CompileIdle /\ CleanIdle /\ LadderIdle /\ FetchIdle

(* the bulk fetch; a frame with rows is turned into records at once, a frame
   without rows sends the call into the per-ticker fallback *)
BulkFetch ==
    /\ bpc = "start"
    /\ requests' = Append(requests, Request("bulk", TickersParam(tickers)))
    /\ \E frame \in Frames :
          /\ df' = frame
          /\ IF Len(frame.rows) = 0
             THEN /\ results' = results
                  /\ bpc' = IF Len(tickers) = 0 THEN "done" ELSE "fallback"
             ELSE /\ results' = RowRecords(frame, 0, tickers, data_fields)
                  /\ bpc' = "done"
    /\ UNCHANGED <<tickers, data_fields, idx,
                   compileVars, cleanVars, ladderVars, fetchVars>>

(* the fallback loop: one get_stock_fundamentals call per requested ticker *)
FallbackFetch ==
    /\ bpc = "fallback" /\ idx < Len(tickers)
    /\ requests' = Append(requests, Request("single", ToUpper(tickers[idx + 1])))
    /\ \E frame \in SingleFrames :
          results' = Append(results, FallbackRecord(frame, tickers[idx + 1], data_fields))
    /\ idx' = idx + 1
    /\ bpc' = IF idx + 1 = Len(tickers) THEN "done" ELSE "fallback"
    /\ UNCHANGED <<tickers, data_fields, df,
                   compileVars, cleanVars, ladderVars, fetchVars>>

NextBulk == BulkFetch \/ FallbackFetch

SpecBulk == InitBulk /\ [][NextBulk]_vars

(* C2: whatever the bulk request and the per-ticker requests return,
   get_multiple_stocks_fundamentals returns exactly one record per requested
   ticker and the i-th record is the i-th requested ticker's. *)
C2_OneRecordPerTicker ==
    bpc = "done" =>
        /\ Len(results) = Len(tickers)
        /\ \A i \in 1..Len(results) :
              (i <= Len(tickers) /\ DictHas(results[i], "ticker")) =>
                  /\ DictGet(results[i], "ticker").t = "str"
                  /\ ToUpper(DictGet(results[i], "ticker").s) = ToUpper(tickers[i])

ViaFallback == \E k \in 1..Len(requests) : requests[k].kind = "single"

(* C18: every record get_multiple_stocks_fundamentals returns, built from a
   row of the bulk response or by get_stock_fundamentals on the per-ticker
   fallback, with or without data_fields, holds a 'ticker' entry; a record of
   the fallback names the ticker it was requested for. *)
C18_TickerInEveryRecord ==
    bpc = "done" =>
        \A i \in 1..Len(results) :
            /\ DictHas(results[i], "ticker")
            /\ DictGet(results[i], "ticker").t = "str"
            /\ ViaFallback => ToUpper(DictGet(results[i], "ticker").s) = ToUpper(tickers[i])

(* the rows of the bulk response that produce a record: those with a ticker
   value, and those without one that stand at a requested ticker's position
   (0-based) *)
TickerCell(i) ==
    \E c \in 1..Len(df.columns) :
        df.columns[c] = "Ticker" /\ CellPresent(df.rows[i + 1][c])

Kept == {i \in 0..(Len(df.rows) - 1) : TickerCell(i) \/ i < Len(tickers)}

(* position in results of the record of row i *)
RecordOf(i) == Cardinality({j \in Kept : j <= i})

BulkAnswered == bpc = "done" /\ ~ViaFallback /\ Len(df.rows) > 0

(* the record key a requested field stands for by the documented order: the
   key equal to its canonical form, else its alias, else the first key that
   contains the name or is contained in it *)
ClaimedValue(row, field) ==
    IF DictHas(row, NormalizeFieldName(field)) THEN DictGet(row, NormalizeFieldName(field))
    ELSE IF DictHas(row, field_aliases(field)) THEN DictGet(row, field_aliases(field))
    ELSE FirstHit(row, {k \in 1..Len(row) : PartialMatch(field, row[k][1])})

(* C25: each requested field resolves first to the record key equal to its
   canonical (normalized) form, only then through the alias table, only
   then to the first key that contains it or is contained in it: a requested
   name that exists as a canonical key is never redirected. *)
C25_CanonicalKeyFirst ==
    (BulkAnswered /\ Len(results) = Len(df.rows)) =>
        \A i \in 1..Len(results) : \A k \in 1..Len(data_fields) :
            DictGet(results[i], data_fields[k])
                = ClaimedValue(ExtractRow(df.columns, df.rows[i], <<>>), data_fields[k])

(* C26: on the bulk success path a row without a ticker value at 0-based
   position i gets the i-th requested ticker when i is below the number of
   requested tickers, and produces no record otherwise. *)
C26_PositionalTicker ==
    BulkAnswered =>
        /\ Len(results) = Cardinality(Kept)
        /\ \A i \in Kept :
              ~TickerCell(i) =>
                  DictGet(results[RecordOf(i)], "ticker") = Text(tickers[i + 1])

C26_Witness ==
    /\ BulkAnswered
    /\ Len(tickers) = 2 /\ tickers[1] # tickers[2]
    /\ Len(df.rows) = 2 /\ ~TickerCell(0) /\ ~TickerCell(1)
    /\ Len(results) = 2
    /\ DictGet(results[2], "ticker") = Text(tickers[2])

(* a ticker-less row beyond the requested tickers is skipped *)
C26_WitnessSkipped ==
    /\ BulkAnswered
    /\ Len(tickers) = 1 /\ Len(df.rows) = 2 /\ ~TickerCell(1)
    /\ Len(results) = 1

-----------------------------------------------------------------------------
(* get_multiple_stocks_fundamentals with its transport: every fetch of the  *)
(* orchestration (the bulk request, then one get_stock_fundamentals call    *)
(* per ticker on the fallback) runs the request loop of _make_request, and  *)
(* `events` logs the calls, sleeps, attempts and returns of one client in   *)
(* the order they happen.                                                   *)

NonEmptyLine(l) == l # ""

TableOf(lines) ==
    [columns |-> Split(lines[1], ","),
     rows |-> [i \in 1..(Len(lines) - 1) |-> Split(lines[i + 1], ",")]]

(* pd.read_csv(StringIO(response.text)) *)
ReadCsv(text) == TableOf(SelectSeq(Split(text, "\n"), NonEmptyLine))

(* the tables of the response texts that hold one, parsed once *)
ParsedBodies ==
    [text \in {b \in FundamentalsBodies : ClassifyCsvFromUrl(b) = "table"} |-> ReadCsv(text)]

(* what _fetch_csv_from_url returns: the parsed table, or pd.DataFrame() *)
ResponseFrame(out, text) == IF out = "table" THEN ParsedBodies[text] ELSE EmptyFrame

ResponseFrames == {EmptyFrame} \cup {ParsedBodies[b] : b \in DOMAIN ParsedBodies}

(* the ticker lists of a call, up to MaxTickers long *)
TickerLists ==
    {[i \in 1..k |-> IF i % 2 = 1 THEN "AAPL" ELSE "msft"] : k \in 0..MaxTickers}

RequestedFields == {<<>>, <<"company">>}

(* the records of the row loop and of one fallback iteration for every frame
   a response can hold, computed once *)
BulkRecords ==
    [frame \in ResponseFrames |-> [tks \in TickerLists |-> [fields \in RequestedFields |->
        RowRecords(frame, 0, tks, fields)]]]

FallbackRecords ==
    [frame \in ResponseFrames |-> [t \in {"AAPL", "msft"} |-> [fields \in RequestedFields |->
        FallbackRecord(frame, t, fields)]]]

InitFundamentals ==
    /\ tickers \in TickerLists
    /\ data_fields \in RequestedFields
    /\ bpc = "start"
    /\ df = EmptyFrame
    /\ idx = 0
    /\ results = <<>>
    /\ requests = <<>>
    /\ path = "fundamentals"
    /\ retries = DefaultRetries
    /\ api_key = "" /\ env_api_key = ""
    /\ attempt = 0
    /\ rpc = "idle"
    /\ events = <<>>
    /\ body = ""
    /\ outcome = "pending"
    /\ CompileIdle /\ CleanIdle /\ LadderIdle

(* a fetch enters _make_request *)
Enter(kind, t) ==
    /\ rpc = "idle"
    /\ requests' = Append(requests, Request(kind, t))
    /\ events' = Append(events, Event("call", Len(requests) + 1, 0, kind, t))
    /\ attempt' = 0
    /\ rpc' = "loop"
    /\ outcome' = "pending"

(* _fetch_csv_from_url hands its frame back to the caller *)
Receive ==
    /\ rpc = "returned" /\ bpc \in {"bulk", "single"}
    /\ events' = Append(events, Event("return", Len(requests), 0, outcome, ""))
    /\ df' = ResponseFrame(outcome, body)
    /\ rpc' = "received"
    /\ UNCHANGED <<tickers, data_fields, bpc, idx, results, requests, api_key,
                   env_api_key, retries, attempt, path, body, outcome,
                   compileVars, cleanVars, ladderVars>>

(* df = self._fetch_csv_from_url(self.EXPORT_URL, params) for all tickers *)
StartBulk ==
    /\ bpc = "start"
    /\ Enter("bulk", TickersParam(tickers))
    /\ bpc' = "bulk"
    /\ UNCHANGED <<tickers, data_fields, df, idx, results, api_key, env_api_key,
                   retries, path, body, compileVars, cleanVars, ladderVars>>

(* the bulk frame is there: the records of its rows, or the fallback loop
   when it is empty *)
EndBulk ==
    /\ bpc = "bulk" /\ rpc = "received"
    /\ IF Len(df.rows) = 0
       THEN /\ results' = results
            /\ bpc' = IF Len(tickers) = 0 THEN "done" ELSE "fallback"
       ELSE /\ results' = BulkRecords[df][tickers][data_fields]
            /\ bpc' = "done"
    /\ rpc' = "idle"
    /\ UNCHANGED <<tickers, data_fields, df, idx, requests, api_key, env_api_key,
                   retries, attempt, events, path, body, outcome,
                   compileVars, cleanVars, ladderVars>>

(* get_stock_fundamentals(ticker, data_fields) of the fallback loop *)
StartSingle ==
    /\ bpc = "fallback" /\ idx < Len(tickers)
    /\ Enter("single", ToUpper(tickers[idx + 1]))
    /\ bpc' = "single"
    /\ UNCHANGED <<tickers, data_fields, df, idx, results, api_key, env_api_key,
                   retries, path, body, compileVars, cleanVars, ladderVars>>

(* its record, or the placeholder, is appended and the loop goes on *)
EndSingle ==
    /\ bpc = "single" /\ rpc = "received"
    /\ results' = Append(results, FallbackRecords[df][tickers[idx + 1]][data_fields])
    /\ idx' = idx + 1
    /\ bpc' = IF idx + 1 = Len(tickers) THEN "done" ELSE "fallback"
    /\ rpc' = "idle"
    /\ UNCHANGED <<tickers, data_fields, df, requests, api_key, env_api_key,
                   retries, attempt, events, path, body, outcome,
                   compileVars, cleanVars, ladderVars>>

NextFundamentals ==
    \/ StartBulk \/ EndBulk \/ StartSingle \/ EndSingle \/ Receive
    \/ RateLimitSleep \/ GetOk \/ GetFail \/ Backoff

SpecFundamentals == InitFundamentals /\ [][NextFundamentals]_vars

(* the code runs on one thread and every HTTP attempt returns or fails, so a
   step that can be taken is taken *)
SpecFundamentalsFair == SpecFundamentals /\ WF_vars(NextFundamentals)

Calls == {i \in 1..Len(events) : events[i].e = "call"}

Returns == {i \in 1..Len(events) : events[i].e = "return"}

(* request n has returned, and the event of its return *)
HasReturned(n) == \E i \in Returns : events[i].k = n

ReturnOf(n) == CHOOSE i \in Returns : events[i].k = n

(* the fetch of request n came back without a table: every attempt failed,
   or the response was no CSV text *)
FetchFailed(n) == events[ReturnOf(n)].result = "empty"

(* the fetch of request n came back without a single data row *)
CameBackEmpty(n) ==
    \/ FetchFailed(n)
    \/ CsvRows(events[ReturnOf(n) - 1].text) = 0

(* C27: when the bulk request fails or returns an empty result, exactly one
   per-ticker fetch is made for each requested ticker, in input order, each
   started only after the previous one has completed and each attempt of it
   preceded by the client's rate-limit delay; a ticker whose fetch fails
   contributes a placeholder record holding that ticker and null for every
   requested field. *)
C27_SequentialFallback ==
    /\ (bpc = "done" /\ CameBackEmpty(1)) =>
          /\ Len(requests) = Len(tickers) + 1
          /\ \A j \in 1..Len(tickers) :
                requests[j + 1] = Request("single", ToUpper(tickers[j]))
          /\ Len(results) = Len(tickers)
    /\ \A i \in Calls : \A j \in Calls :
          i < j => \E r \in Returns : i < r /\ r < j /\ events[r].k = events[i].k
    /\ \A i \in Gets :
          /\ i > 1 /\ events[i - 1].e = "rate_limit"
          /\ events[i - 1].secs = rate_limit_delay
    /\ \A j \in 1..Len(results) :
          (ViaFallback /\ HasReturned(j + 1) /\ FetchFailed(j + 1)) =>
              /\ DictHas(results[j], "ticker")
              /\ DictGet(results[j], "ticker") = Text(tickers[j])
              /\ \A k \in 1..Len(data_fields) :
                    /\ DictHas(results[j], data_fields[k])
                    /\ DictGet(results[j], data_fields[k]) = NoneCell

C27_Witness ==
    /\ bpc = "done" /\ Len(tickers) = 2 /\ data_fields = <<"company">>
    /\ CameBackEmpty(1) /\ ~FetchFailed(1)
    /\ FetchFailed(2) /\ ~FetchFailed(3)
    /\ results[1] = <<<<"ticker", Text("AAPL")>>, <<"company", NoneCell>>>>

(* C28: every HTTP attempt a client issues, a first attempt or a retry, in
   any sequence of calls, is immediately preceded by a wait of at least
   rate_limit_delay (1 second). *)
C28_WaitBeforeEveryAttempt ==
    \A i \in 1..Len(events) :
        events[i].e = "get" =>
            /\ i > 1
            /\ events[i - 1].e = "rate_limit"
            /\ events[i - 1].secs >= 1

C28_Witness ==
    /\ Len(requests) = 3
    /\ \E i \in Gets : events[i].k = 2 /\ events[i - 1].e = "rate_limit"
    /\ \E i \in Gets : events[i].k = 0 /\ events[i - 2].e = "call"
                         /\ events[i - 2].result = "single"

(* C30: provided each HTTP attempt eventually returns or fails, every call
   of get_multiple_stocks_fundamentals with N tickers terminates, having
   issued at most 3 * (N + 1) HTTP attempts: one bulk request and at most one
   request per ticker, each of at most three attempts. *)
C30_TerminatesWithinAttempts ==
    /\ <>(bpc = "done")
    /\ [](Cardinality(Gets) <= 3 * (Len(tickers) + 1))

C30_Witness ==
    /\ bpc = "done" /\ Len(tickers) = 2
    /\ Cardinality(Gets) = 3 * (Len(tickers) + 1)

====
